---------------------------- MODULE Spec2Model ----------------------------
(***************************************************************************)
(* Model of the chain keyword monitor (ChainKeywordMonitor), its           *)
(* completion-signal detector (isActualCompletionSignal) and the terminal  *)
(* channel it polls (readFromInstance / sendToInstance).                   *)
(*                                                                         *)
(* Text is a sequence of one-character strings.  Offsets are 0-based as    *)
(* in JavaScript; TLA+ sequences are 1-based, so offset o is index o + 1.  *)
(***************************************************************************)
EXTENDS Integers, Sequences, FiniteSets, TLC

(***************************************************************************)
(* Bounds of the model.                                                    *)
(***************************************************************************)
\* calls of start() explored (the second one is a restart)
MaxStarts == 2
\* poll cycles (pollCount) explored
MaxPolls == 2
\* largest value of the clock
MaxTime == 1

(***************************************************************************)
(* Characters.  The non-ASCII characters of the source are atoms.          *)
(***************************************************************************)
NL == "\n"
\* U+23FA, the status marker the agent prints before its output
Marker == "<marker>"
\* U+2610, U+25A1, U+23BF: the structural list markers
BallotBox == "<ballot-box>"
WhiteSquare == "<white-square>"
ResultHook == "<result-hook>"
WhiteSpace == {" ", "\t", "\n", "\r"}
Digits == {"0", "1", "2", "3", "4", "5", "6", "7", "8", "9"}

(***************************************************************************)
(* String primitives of JavaScript, on sequences of characters.            *)
(***************************************************************************)
\* text.substring(o).startsWith(pat), o 0-based
OccursAt(text, pat, o) ==
    /\ o >= 0
    /\ o + Len(pat) <= Len(text)
    /\ \A k \in 1..Len(pat) : text[o + k] = pat[k]

\* String.prototype.includes
Includes(text, pat) == \E o \in 0..(Len(text) - Len(pat)) : OccursAt(text, pat, o)

\* String.prototype.startsWith
StartsWith(text, pat) == OccursAt(text, pat, 0)

\* String.prototype.endsWith
EndsWith(text, pat) == OccursAt(text, pat, Len(text) - Len(pat))

\* String.prototype.lastIndexOf: the greatest offset of pat, -1 when absent
LastIndexOf(text, pat) ==
    LET at == {o \in 0..(Len(text) - Len(pat)) : OccursAt(text, pat, o)}
    IN  IF at = {} THEN -1 ELSE CHOOSE o \in at : \A p \in at : p <= o

\* String.prototype.indexOf
IndexOf(text, pat) ==
    LET at == {o \in 0..(Len(text) - Len(pat)) : OccursAt(text, pat, o)}
    IN  IF at = {} THEN -1 ELSE CHOOSE o \in at : \A p \in at : o <= p

\* text.slice(-n) for n > 0: the last n characters, the whole text when shorter
SliceLast(text, n) ==
    IF Len(text) <= n THEN text ELSE SubSeq(text, Len(text) - n + 1, Len(text))

\* String.prototype.trim
Trim(text) ==
    LET keep == {i \in 1..Len(text) : text[i] \notin WhiteSpace}
    IN  IF keep = {} THEN <<>>
        ELSE SubSeq(text, CHOOSE i \in keep : \A j \in keep : i <= j,
                          CHOOSE i \in keep : \A j \in keep : j <= i)

\* text.split('\n')
RECURSIVE SplitLines(_)
SplitLines(text) ==
    LET o == IndexOf(text, <<NL>>)
    IN  IF o = -1 THEN <<text>>
        ELSE <<SubSeq(text, 1, o)>> \o SplitLines(SubSeq(text, o + 2, Len(text)))

\* lines.join('\n')
RECURSIVE JoinLines(_)
JoinLines(lines) ==
    IF lines = <<>> THEN <<>>
    ELSE IF Len(lines) = 1 THEN lines[1]
    ELSE lines[1] \o <<NL>> \o JoinLines(Tail(lines))

\* text.replace(/^<marker>\s*/, '')
RECURSIVE StripLeadingSpace(_)
StripLeadingSpace(text) ==
    IF text # <<>> /\ text[1] \in WhiteSpace THEN StripLeadingSpace(Tail(text)) ELSE text

StripMarker(text) ==
    IF StartsWith(text, <<Marker>>) THEN StripLeadingSpace(Tail(text)) ELSE text

(***************************************************************************)
(* isActualCompletionSignal(line, keyword)                                 *)
(***************************************************************************)
\* the mention-not-signal substrings, with the keyword filled in
IgnoredPatterns(keyword) ==
    { <<BallotBox>>, <<WhiteSquare>>, <<ResultHook>>,
      <<"D","o","c","u","m","e","n","t">>,
      <<"s","i","g","n","a","l"," ","c","o","m","p","l","e","t","i","o","n">>,
      <<"w","i","t","h"," ">> \o keyword,
      <<"a","n","d"," ">> \o keyword,
      <<"u","s","i","n","g"," ">> \o keyword,
      <<"s","a","y"," ">> \o keyword,
      <<"S","a","y"," ">> \o keyword,
      <<"t","y","p","e"," ">> \o keyword,
      <<"E","x","e","c","u","t","e"," ","s","t","e","p">>,
      <<"S","t","e","p"," ">>,
      <<"e","x","e","c","u","t","e"," ","i","t">>,
      <<"p","l","a","n",":">>,
      <<"t","o","d","o"," ","l","i","s","t">>,
      <<"C","r","e","a","t","e">>,
      <<"A","n","a","l","y","z","e">>,
      <<"t","h","e","n"," ","e","x","e","c","u","t","e">>,
      <<":"," ","S","a","y">>,
      <<"."," ","S","a","y">>,
      <<"L","e","t"," ","m","e">>,
      <<"I"," ","n","e","e","d"," ","t","o">>,
      <<"I"," ","w","i","l","l">>,
      <<"I"," ","s","h","o","u","l","d">> }

\* trimmedLine.match(/^\d+\./)
IsNumberedItem(text) ==
    \E n \in 1..Len(text) :
        /\ n < Len(text)
        /\ \A k \in 1..n : text[k] \in Digits
        /\ text[n + 1] = "."

MatchesKeywordWithSuffixUnanchored(text, keyword) == StartsWith(text, keyword)

MatchesKeywordWithSuffixUnescaped(text, keyword) ==
    /\ Len(text) >= Len(keyword)
    /\ \A k \in 1..Len(keyword) : keyword[k] = "." \/ text[k] = keyword[k]
    /\ \A k \in (Len(keyword) + 1)..Len(text) : text[k] \notin WhiteSpace

MatchesKeywordWithSuffixNonEmpty(text, keyword) ==
    /\ StartsWith(text, keyword)
    /\ Len(text) > Len(keyword)
    /\ \A k \in (Len(keyword) + 1)..Len(text) : text[k] \notin WhiteSpace

\* new RegExp('^' + escaped(keyword) + '\\S*$').test(text)
MatchesKeywordWithSuffix(text, keyword) ==
    /\ StartsWith(text, keyword)
    /\ \A k \in (Len(keyword) + 1)..Len(text) : text[k] \notin WhiteSpace

\* margin of the loose marker rule: trimmedLine.length < keyword.length + 10
MarkerSlack == 10

isActualCompletionSignal(line, keyword) ==
    LET trimmedLine == Trim(line)
    IN  IF \E pattern \in IgnoredPatterns(keyword) : Includes(trimmedLine, pattern)
        THEN FALSE
        ELSE IF IsNumberedItem(trimmedLine)
        THEN FALSE
        ELSE IF EndsWith(keyword, <<":">>)
        THEN \/ MatchesKeywordWithSuffix(trimmedLine, keyword)
             \/ MatchesKeywordWithSuffix(StripMarker(trimmedLine), keyword)
        ELSE \/ trimmedLine = keyword
             \/ trimmedLine = <<Marker, " ">> \o keyword
             \/ /\ StartsWith(trimmedLine, <<Marker>>)
                /\ EndsWith(trimmedLine, keyword)
                /\ Len(trimmedLine) < Len(keyword) + MarkerSlack

(***************************************************************************)
(* The workflow chain and the options of the run.                          *)
(***************************************************************************)
\* an absent nextKeyword (undefined and '' are both falsy)
NoKeyword == <<>>
NoInstruction == ""
NoIndex == 0 - 1

Stage(keyword, instruction, nextKeyword) ==
    [keyword |-> keyword, instruction |-> instruction, nextKeyword |-> nextKeyword]

\* the chain of the usage example of main(): two stages, linked in order
TwoStageChain ==
    << Stage(<<"A">>, "I0", <<"B">>),
       Stage(<<"B">>, "I1", NoKeyword) >>

\* the chain of the header comment, closed by a last stage: three stages
ThreeStageChain ==
    << Stage(<<"A">>, "I0", <<"B">>),
       Stage(<<"B">>, "I1", <<"C">>),
       Stage(<<"C">>, "I2", NoKeyword) >>

\* options.retryAttempts of the run
RetryAttempts == 2
\* options.timeout of the run, in clock ticks
Timeout == 0
\* the window of outputBuffer.slice(-10000), scaled to the model's text sizes
BufferWindow == 6

\* this.keywordMap: one entry per distinct keyword, in order of first insertion,
\* holding the last chain that carries the keyword and its index
KeywordMap(chs) ==
    LET first == {i \in 1..Len(chs) : \A j \in 1..(i - 1) : chs[j].keyword # chs[i].keyword}
        last(k) == CHOOSE j \in 1..Len(chs) :
                      /\ chs[j].keyword = k
                      /\ \A l \in 1..Len(chs) : chs[l].keyword = k => l <= j
        entry(i) == [keyword |-> chs[i].keyword,
                     instruction |-> chs[last(chs[i].keyword)].instruction,
                     nextKeyword |-> chs[last(chs[i].keyword)].nextKeyword,
                     chainIndex |-> last(chs[i].keyword) - 1]
        RECURSIVE build(_)
        build(i) == IF i > Len(chs) THEN <<>>
                    ELSE IF i \in first THEN <<entry(i)>> \o build(i + 1)
                    ELSE build(i + 1)
    IN  build(1)

(***************************************************************************)
(* The terminal channel.                                                   *)
(***************************************************************************)
\* what the session may show when it is captured: nothing, the keyword line of
\* either stage alone, or both
Screens ==
    { <<>>,
      << <<"A">> >>,
      << <<"B">> >>,
      << <<"A">>, <<"B">> >> }

\* readFromInstance: stdout.trim() of the captured pane.  The line limit splits
\* on the two characters backslash and n, which the pane does not hold, so it
\* leaves the text as it is.
ReadOutput(lines) == Trim(JoinLines(lines))

SendOutcomes == {"ok", "fail", "throw"}

(***************************************************************************)
(* State.                                                                  *)
(***************************************************************************)
VARIABLES
    chains,                \* this.chains
    timeout,               \* this.timeout, in units of the clock
    retryAttempts,         \* this.retryAttempts
    isActive,              \* this.isActive
    startTime,             \* this.startTime, NoIndex for null
    interval,              \* this.interval: TRUE while the timer is set
    currentChainIndex,     \* this.currentChainIndex
    currentKeyword,        \* this.currentKeyword
    outputBuffer,          \* this.outputBuffer
    pollCount,             \* this.pollCount
    executedChains,        \* this.executedChains
    detectedKeywords,      \* this.detectedKeywords
    lastDetectedPosition,  \* this.lastDetectedPosition
    events,                \* the events emitted so far, in order
    tasks,                 \* the checkOutput calls suspended at an await
    now,                   \* Date.now()
    pane,                  \* the lines the session showed when it was last captured
    starts,                \* calls of start() that took effect
    readFailures,          \* reads that reported failure
    sendCount,             \* send attempts begun
    dispatches,            \* per stage index: the outcomes of its send attempts
    lastCall,              \* how the last call of start() or stop() ended
    waits,                 \* per stage index: the retryDelay timers set by its dispatch
    input,                 \* the arguments of a call of one of the pure functions
    output                 \* what that call returned, NoOutput before it returns

vars == << chains, timeout, retryAttempts, isActive, startTime, interval, currentChainIndex, currentKeyword,
           outputBuffer, pollCount, executedChains, detectedKeywords,
           lastDetectedPosition, events, tasks, now, pane, starts, readFailures,
           sendCount, dispatches, lastCall, waits, input, output >>

config == << chains, timeout, retryAttempts >>
call == << input, output >>
runState == << currentChainIndex, currentKeyword, outputBuffer, executedChains,
               detectedKeywords, lastDetectedPosition >>

Event(type, keyword, instruction, chainIndex, count) ==
    [type |-> type, keyword |-> keyword, instruction |-> instruction,
     chainIndex |-> chainIndex, count |-> count]

PlainEvent(type) == Event(type, NoKeyword, NoInstruction, NoIndex, NoIndex)

Task(id, pc, stage, attempt, immediate) ==
    [id |-> id, pc |-> pc, stage |-> stage, attempt |-> attempt, immediate |-> immediate]

(***************************************************************************)
(* detectKeywordInOutput                                                   *)
(***************************************************************************)
\* this.lastDetectedPosition.get(keyword) || -1
LastPosition(positions, keyword) ==
    IF keyword \in DOMAIN positions /\ positions[keyword] # 0
    THEN positions[keyword] ELSE -1

\* the test of the line for the keyword; with a keyword ending in ':' the
\* regular expression keyword\S* matches wherever the keyword occurs
HasKeyword(line, keyword) ==
    IF EndsWith(keyword, <<":">>) THEN Includes(line, keyword) ELSE Includes(line, keyword)

IsUserInput(line, inUserCommand, keyword) ==
    \/ inUserCommand
    \/ StartsWith(Trim(line), <<">">>)
    \/ Includes(line, <<"p","l","z"," ","s","a","y">>)
    \/ Includes(line, <<"p","l","e","a","s","e"," ","s","a","y">>)
    \/ Includes(line, <<"t","y","p","e",":">>)
    \/ (Includes(line, <<"T","o","d","o",":">>) /\ Includes(line, keyword))
    \/ (Includes(line, <<"T","a","s","k",":">>) /\ Includes(line, keyword))
    \/ (Includes(line, <<"G","i","v","e","n"," ","t","h","e"," ",
                         "f","o","l","l","o","w","i","n","g">>) /\ Includes(line, keyword))

\* the loop over the lines of the buffer, from line i on
RECURSIVE ScanLines(_, _, _, _)
ScanLines(lines, i, inUserCommand, keyword) ==
    IF i > Len(lines) THEN FALSE
    ELSE LET line == lines[i]
             trimmedLine == Trim(line)
             opened == inUserCommand \/ StartsWith(trimmedLine, <<">">>)
             inUser == opened /\ ~Includes(trimmedLine, <<Marker>>)
         IN  IF /\ HasKeyword(line, keyword)
                /\ ~IsUserInput(line, inUser, keyword)
                /\ isActualCompletionSignal(line, keyword)
             THEN TRUE
             ELSE ScanLines(lines, i + 1, inUser, keyword)

detectKeywordInOutput(buffer, positions, keyword) ==
    /\ Includes(buffer, keyword)
    /\ LastIndexOf(buffer, keyword) > LastPosition(positions, keyword)
    /\ ScanLines(SplitLines(buffer), 1, FALSE, keyword)

\* checkForKeywords: the index in the keyword map of the first keyword detected,
\* 0 when none is
FirstDetected(buffer, positions, map) ==
    LET hits == {i \in 1..Len(map) : detectKeywordInOutput(buffer, positions, map[i].keyword)}
    IN  IF hits = {} THEN 0 ELSE CHOOSE i \in hits : \A j \in hits : i <= j

\* the duplicate-execution guard of executeChainAction
AlreadyExecutedNever(executed, keyword, chainIndex) == FALSE
AlreadyExecutedAtAwaited(executed, keyword, chainIndex) ==
    \E k \in 1..Len(executed) :
        executed[k].keyword = keyword /\ executed[k].chainIndex = currentChainIndex
AlreadyExecuted(executed, keyword, chainIndex) ==
    \E k \in 1..Len(executed) :
        executed[k].keyword = keyword /\ executed[k].chainIndex = chainIndex

(***************************************************************************)
(* The monitor.  One action is one run of the code between two awaits on   *)
(* the channel or a timer; nothing else interleaves inside it.             *)
(***************************************************************************)
\* no call of a pure function is in progress
NoInput == [function |-> "none"]
NoOutput == [returned |-> FALSE]

\* the monitor as its constructor leaves it
Constructed(chs, limit, attempts) ==
    /\ chains = chs
    /\ timeout = limit
    /\ retryAttempts = attempts
    /\ isActive = FALSE
    /\ startTime = NoIndex
    /\ interval = FALSE
    /\ currentChainIndex = 0
    /\ currentKeyword = (IF chs = <<>> THEN NoKeyword ELSE chs[1].keyword)
    /\ outputBuffer = <<>>
    /\ pollCount = 0
    /\ executedChains = <<>>
    /\ detectedKeywords = {}
    /\ lastDetectedPosition = [k \in {} |-> 0]
    /\ events = <<>>
    /\ tasks = {}
    /\ now = 0
    /\ pane = <<>>
    /\ starts = 0
    /\ readFailures = 0
    /\ sendCount = 0
    /\ dispatches = [i \in 0..(Len(chains) - 1) |-> <<>>]
    /\ lastCall = "none"
    /\ waits = [i \in 0..(Len(chains) - 1) |-> 0]

InitOf(chs, limit) ==
    /\ Constructed(chs, limit, RetryAttempts)
    /\ input = NoInput
    /\ output = NoOutput

InitWith(chs) == InitOf(chs, Timeout)

Init == InitWith(TwoStageChain)

\* start(), with maxStarts calls and maxPolls poll cycles explored: the timer is
\* set, the immediate checkOutput runs up to its read (now - startTime is 0
\* there, so it cannot time out), then 'started' is emitted
Start(maxStarts, maxPolls) ==
    /\ ~isActive
    /\ starts < maxStarts
    /\ pollCount < maxPolls
    /\ isActive' = TRUE
    /\ startTime' = now
    /\ interval' = TRUE
    /\ pollCount' = pollCount + 1
    /\ tasks' = tasks \cup {Task(pollCount + 1, "read", NoIndex, 0, TRUE)}
    /\ events' = Append(events, PlainEvent("started"))
    /\ starts' = starts + 1
    /\ lastCall' = "started"
    /\ UNCHANGED << config, call, waits, runState, now, pane, readFailures, sendCount, dispatches >>

\* start() while the monitor is running: logs and returns
StartWhileActive ==
    /\ isActive
    /\ lastCall' = "already running"
    /\ UNCHANGED << config, call, waits, runState, isActive, startTime, interval, pollCount, events,
                    tasks, now, pane, starts, readFailures, sendCount, dispatches >>

\* the test at the head of stop(): it returns at once when the monitor is not running
StopReturnsAtOnceNever(active) == FALSE
StopReturnsAtOnce(active) == ~active

\* stop()
Stop ==
    /\ ~StopReturnsAtOnce(isActive)
    /\ isActive' = FALSE
    /\ interval' = FALSE
    /\ events' = Append(events, PlainEvent("stopped"))
    /\ lastCall' = "stopped"
    /\ UNCHANGED << config, call, waits, runState, startTime, pollCount, tasks, now, pane, starts,
                    readFailures, sendCount, dispatches >>

\* stop() while the monitor is not running: returns at once
StopWhileInactive ==
    /\ StopReturnsAtOnce(isActive)
    /\ lastCall' = "not running"
    /\ UNCHANGED << config, call, waits, runState, isActive, startTime, interval, pollCount, events,
                    tasks, now, pane, starts, readFailures, sendCount, dispatches >>

\* the timeout test of checkOutput: Date.now() - this.startTime > this.timeout
TimeoutReachedNever(time, started) == FALSE
TimeoutReachedInclusive(time, started) == time - started >= timeout
TimeoutReached(time, started) == time - started > timeout

\* the timer fires, with maxPolls poll cycles explored: checkOutput up to the read, or up to the end on a timeout
IntervalFires(maxPolls) ==
    /\ interval
    /\ pollCount < maxPolls
    /\ IF ~isActive
       THEN UNCHANGED << isActive, interval, pollCount, tasks, events >>
       ELSE /\ pollCount' = pollCount + 1
            /\ IF TimeoutReached(now, startTime)
               THEN /\ isActive' = FALSE
                    /\ interval' = FALSE
                    /\ events' = events \o
                         << PlainEvent("stopped"),
                            Event("timeout", NoKeyword, NoInstruction,
                                  currentChainIndex, Len(executedChains)) >>
                    /\ UNCHANGED tasks
               ELSE /\ tasks' = tasks \cup {Task(pollCount + 1, "read", NoIndex, 0, FALSE)}
                    /\ UNCHANGED << isActive, interval, events >>
    /\ UNCHANGED << config, call, waits, lastCall, runState, startTime, now, pane, starts, readFailures,
                    sendCount, dispatches >>

\* readFromInstance reports failure: checkOutput throws.  The timer's callback
\* catches it and emits 'error'; start() passes it to console.error
ReadFails(t) ==
    /\ t \in tasks
    /\ t.pc = "read"
    /\ tasks' = tasks \ {t}
    /\ readFailures' = readFailures + 1
    /\ events' = IF t.immediate THEN events ELSE Append(events, PlainEvent("error"))
    /\ UNCHANGED << config, call, waits, lastCall, runState, isActive, startTime, interval, pollCount, now,
                    pane, starts, sendCount, dispatches >>

\* readFromInstance returns the pane: the buffer is updated and scanned, and on a
\* detection executeChainAction runs up to its first send (retryAttempts is at
\* least 1).  The screens hold no JSON wrapper of the former bridge, so the
\* unwrapping of the output leaves them as they are.
ReadReturns(t, screen) ==
    /\ t \in tasks
    /\ t.pc = "read"
    /\ pane' = screen
    /\ LET buffer == SliceLast(outputBuffer, BufferWindow) \o ReadOutput(screen)
           map == KeywordMap(chains)
           hit == FirstDetected(buffer, lastDetectedPosition, map)
       IN  /\ outputBuffer' = buffer
           /\ IF hit = 0
              THEN /\ tasks' = tasks \ {t}
                   /\ UNCHANGED << executedChains, detectedKeywords, lastDetectedPosition,
                                   events, sendCount >>
              ELSE /\ lastDetectedPosition' =
                        (map[hit].keyword :> LastIndexOf(buffer, map[hit].keyword))
                            @@ lastDetectedPosition
                   /\ detectedKeywords' = detectedKeywords \cup {map[hit].keyword}
                   /\ IF AlreadyExecuted(executedChains, map[hit].keyword, map[hit].chainIndex)
                      THEN /\ tasks' = tasks \ {t}
                           /\ UNCHANGED << executedChains, events, sendCount >>
                      ELSE /\ executedChains' = Append(executedChains,
                                 [keyword |-> map[hit].keyword,
                                  instruction |-> map[hit].instruction,
                                  timestamp |-> now,
                                  chainIndex |-> map[hit].chainIndex])
                           /\ events' = Append(events,
                                 Event("chain_executed", map[hit].keyword,
                                       map[hit].instruction, map[hit].chainIndex, NoIndex))
                           /\ tasks' = (tasks \ {t}) \cup
                                 {Task(t.id, "send", map[hit].chainIndex, 1, t.immediate)}
                           /\ sendCount' = sendCount + 1
    /\ UNCHANGED << config, call, waits, lastCall, isActive, startTime, interval, currentChainIndex,
                    currentKeyword, pollCount, now, starts, readFailures, dispatches >>

\* the loop of sendInstructionWithRetry goes round again after a failed attempt
HasNextAttemptOffByOne(attempt) == attempt <= retryAttempts
HasNextAttemptAlways(attempt) == TRUE
HasNextAttempt(attempt) == attempt < retryAttempts

\* the event of a dispatch that failed on every attempt
ChainFailedEventOfAwaited(cfg, chainIndex) ==
    Event("chain_failed", currentKeyword, cfg.instruction, chainIndex, NoIndex)
ChainFailedEvent(cfg, chainIndex) ==
    Event("chain_failed", cfg.keyword, cfg.instruction, chainIndex, NoIndex)

\* result.success of a send attempt; an attempt that throws has no result
SendSucceededUnlessThrown(outcome) == outcome \in {"ok", "fail"}
SendSucceeded(outcome) == outcome = "ok"

\* sendToInstance returns or throws: sendInstructionWithRetry goes on to its
\* wait or returns, and executeChainAction runs to its end
SendReturns(t, outcome) ==
    /\ t \in tasks
    /\ t.pc = "send"
    /\ dispatches' = [dispatches EXCEPT ![t.stage] = Append(@, outcome)]
    /\ LET cfg == chains[t.stage + 1]
       IN  IF SendSucceeded(outcome)
           THEN /\ tasks' = tasks \ {t}
                /\ IF cfg.nextKeyword # NoKeyword
                   THEN /\ currentKeyword' = cfg.nextKeyword
                        /\ currentChainIndex' = t.stage + 1
                        /\ UNCHANGED << isActive, interval, events, waits >>
                   ELSE /\ events' = events \o
                             << Event("chain_complete", NoKeyword, NoInstruction,
                                      NoIndex, Len(executedChains)) >>
                             \o (IF isActive THEN << PlainEvent("stopped") >> ELSE <<>>)
                        /\ isActive' = FALSE
                        /\ interval' = FALSE
                        /\ UNCHANGED << currentKeyword, currentChainIndex, waits >>
           ELSE IF HasNextAttempt(t.attempt)
           THEN /\ tasks' = (tasks \ {t}) \cup {[t EXCEPT !.pc = "wait"]}
                /\ waits' = [waits EXCEPT ![t.stage] = @ + 1]
                /\ UNCHANGED << isActive, interval, events, currentKeyword,
                                currentChainIndex >>
           ELSE /\ tasks' = tasks \ {t}
                /\ events' = events \o
                     << ChainFailedEvent(cfg, t.stage) >>
                     \o (IF isActive THEN << PlainEvent("stopped") >> ELSE <<>>)
                /\ isActive' = FALSE
                /\ interval' = FALSE
                /\ UNCHANGED << currentKeyword, currentChainIndex, waits >>
    /\ UNCHANGED << config, call, lastCall, startTime, outputBuffer, pollCount, executedChains,
                    detectedKeywords, lastDetectedPosition, now, pane, starts,
                    readFailures, sendCount >>

\* the retryDelay timer fires: the next attempt is sent
RetryDelayElapses(t) ==
    /\ t \in tasks
    /\ t.pc = "wait"
    /\ tasks' = (tasks \ {t}) \cup {[t EXCEPT !.pc = "send", !.attempt = t.attempt + 1]}
    /\ sendCount' = sendCount + 1
    /\ UNCHANGED << config, call, waits, lastCall, runState, isActive, startTime, interval, pollCount, events,
                    now, pane, starts, readFailures, dispatches >>

(***************************************************************************)
(* The environment: the clock.  The session's content is observed only by  *)
(* a read, which is where it changes.                                      *)
(***************************************************************************)
TickTo(maxTime) ==
    /\ now < maxTime
    /\ now' = now + 1
    /\ UNCHANGED << config, call, waits, lastCall, runState, isActive, startTime, interval, pollCount, events,
                    tasks, pane, starts, readFailures, sendCount, dispatches >>

Tick == TickTo(MaxTime)

Next ==
    \/ Start(MaxStarts, MaxPolls)
    \/ StartWhileActive
    \/ Stop
    \/ StopWhileInactive
    \/ IntervalFires(MaxPolls)
    \/ \E t \in tasks : ReadFails(t)
    \/ \E t \in tasks, screen \in Screens : ReadReturns(t, screen)
    \/ \E t \in tasks, outcome \in SendOutcomes : SendReturns(t, outcome)
    \/ \E t \in tasks : RetryDelayElapses(t)
    \/ Tick

Spec == Init /\ [][Next]_vars

(***************************************************************************)
(* A single run: one call of start() that takes effect, and a timeout      *)
(* longer than the run (the clock stands still).  The session, the reads   *)
(* and the sends behave as in Spec, and stop() may be called at any time.  *)
(***************************************************************************)
SingleRunNext ==
    \/ Start(1, MaxPolls)
    \/ StartWhileActive
    \/ Stop
    \/ StopWhileInactive
    \/ IntervalFires(MaxPolls)
    \/ \E t \in tasks : ReadFails(t)
    \/ \E t \in tasks, screen \in Screens : ReadReturns(t, screen)
    \/ \E t \in tasks, outcome \in SendOutcomes : SendReturns(t, outcome)
    \/ \E t \in tasks : RetryDelayElapses(t)

SpecSingleRun == Init /\ [][SingleRunNext]_vars

(***************************************************************************)
(* The scripted run: a chain of three stages, a session that shows the     *)
(* keyword lines in chain order and keeps them, every send successful at   *)
(* its first attempt, no stop() and no timeout.                            *)
(***************************************************************************)
\* poll cycles explored in the scripted run
ScriptPolls == 4

\* what the session may show after it showed the lines shown: these and zero or
\* more of the next keywords of the chain, in order
ScriptScreens(shown) ==
    { [k \in 1..n |-> chains[k].keyword] : n \in Len(shown)..Len(chains) }

ScriptedInit == InitWith(ThreeStageChain)

ScriptedNext ==
    \/ Start(1, ScriptPolls)
    \/ IntervalFires(ScriptPolls)
    \/ \E t \in tasks, screen \in ScriptScreens(pane) : ReadReturns(t, screen)
    \/ \E t \in tasks : SendReturns(t, "ok")

SpecScripted == ScriptedInit /\ [][ScriptedNext]_vars

(***************************************************************************)
(* Timed runs: one call of start() at time 0, the clock running while the  *)
(* monitor does, and the timer of setInterval firing no more often than    *)
(* once per pollInterval.  The timeout is longer than one poll interval,   *)
(* so polls before and after it are both seen.                             *)
(***************************************************************************)
\* largest time elapsed since start() in a timed run
MaxElapsed == 3
\* options.timeout of a timed run, in clock ticks
TimedTimeout == 2
\* options.pollInterval, in clock ticks
PollInterval == 1

\* the clock of a timed run
TimedTick == isActive /\ TickTo(MaxElapsed)

\* the timer's callback is due: of the callbacks the timer owes since start(),
\* one per pollInterval elapsed, not all have run (the first poll is start()'s)
TimerDue == pollCount - 1 < (now - startTime) \div PollInterval

TimedIntervalFires == TimerDue /\ IntervalFires(MaxElapsed + 1)

\* what a session without a completion signal may show: nothing, or a line that
\* mentions the keyword in an instruction, in the user's prompt or in a sentence
NoSignalScreens ==
    { <<>>,
      << <<"s","a","y"," ","A">> >>,
      << <<">"," ","A">> >>,
      << <<"A",".">> >> }

NoSignalInit == InitOf(TwoStageChain, TimedTimeout)

NoSignalNext ==
    \/ Start(1, MaxElapsed + 1)
    \/ TimedIntervalFires
    \/ \E t \in tasks : ReadFails(t)
    \/ \E t \in tasks, screen \in NoSignalScreens : ReadReturns(t, screen)
    \/ TimedTick

\* time passes while the monitor runs, and a timer that is due fires
SpecNoSignal ==
    /\ NoSignalInit
    /\ [][NoSignalNext]_vars
    /\ WF_vars(TimedTick)
    /\ WF_vars(TimedIntervalFires)

(***************************************************************************)
(* A timed run with a session that shows completion signals and sends     *)
(* that succeed or report failure.                                         *)
(***************************************************************************)
TimedInit == InitOf(TwoStageChain, TimedTimeout)

TimedNext ==
    \/ Start(1, MaxElapsed + 1)
    \/ TimedIntervalFires
    \/ \E t \in tasks, screen \in Screens : ReadReturns(t, screen)
    \/ \E t \in tasks, outcome \in {"ok", "fail"} : SendReturns(t, outcome)
    \/ \E t \in tasks : RetryDelayElapses(t)
    \/ TimedTick

SpecTimed == TimedInit /\ [][TimedNext]_vars

(***************************************************************************)
(* Calls of isActualCompletionSignal on its own: the line and the keyword  *)
(* are drawn from the families below, the monitor stays as constructed.    *)
(***************************************************************************)
\* most characters put between the status marker and the keyword
MaxBetween == 10

\* keywords: plain; holding an ignored pattern; like a numbered item; ending
\* with ':'; with a regular-expression metacharacter; with a leading blank
DetectorKeywords ==
    { <<"O","K">>, <<"C","r","e","a","t","e","d">>, <<"S","t","e","p"," ","2">>, <<"1",".","O","K">>,
      <<"O","K",":">>, <<"a",".","c",":">>, <<" ","O","K">> }

Filler(n) == [k \in 1..n |-> "x"]

\* what a line may hold before the keyword
LinePrefixes ==
    { <<>>, <<" ">>, <<Marker>>, <<Marker, " ">>, <<Marker, Marker, " ">>,
      <<Marker>> \o <<" ","o","k"," ">>, <<Marker>> \o <<" ","s","a","y"," ">>, <<Marker>> \o <<" ","S","A","Y"," ">>,
      <<Marker>> \o <<" ","S","a","y"," ">>,
      <<"s","a","y"," ">>, <<"S","a","y"," ">>, <<"S","A","Y"," ">>, <<"T","h","e","n"," ","s","a","y"," ">>, <<"1","."," ">>, <<"o","k"," ">>, <<">"," ">> }
    \cup { <<Marker>> \o Filler(n) : n \in 1..MaxBetween }
    \cup { <<Marker, " ">> \o Filler(n) : n \in (MaxBetween - 2)..(MaxBetween - 1) }

\* what a line may hold after the keyword
LineSuffixes ==
    { <<>>, <<" ">>, <<"x">>, <<" ", "x">>, <<" ","w","h","e","n"," ","d","o","n","e">> }

\* the keyword with every '.' replaced by another character
Undotted(keyword) == [k \in 1..Len(keyword) |-> IF keyword[k] = "." THEN "b" ELSE keyword[k]]

DetectorLines(keyword) ==
    { prefix \o keyword \o suffix : prefix \in LinePrefixes, suffix \in LineSuffixes }
    \cup { prefix \o Undotted(keyword) \o suffix :
             prefix \in {<<>>, <<Marker, " ">>}, suffix \in {<<>>, <<"x">>} }

DetectorInput(line, keyword) ==
    [function |-> "isActualCompletionSignal", line |-> line, keyword |-> keyword]

Returned(value) == [returned |-> TRUE, value |-> value]

DetectorInit ==
    /\ Constructed(TwoStageChain, Timeout, RetryAttempts)
    /\ input \in { DetectorInput(line, keyword) :
                     line \in UNION { DetectorLines(k) : k \in DetectorKeywords },
                     keyword \in DetectorKeywords }
    /\ output = NoOutput

\* the call returns
DetectorReturns ==
    /\ output = NoOutput
    /\ output' = Returned(isActualCompletionSignal(input.line, input.keyword))
    /\ UNCHANGED << config, runState, isActive, startTime, interval, pollCount, events,
                    tasks, now, pane, starts, readFailures, sendCount, dispatches,
                    lastCall, waits, input >>

SpecDetector == DetectorInit /\ [][DetectorReturns]_vars

(***************************************************************************)
(* Properties.                                                             *)
(***************************************************************************)
EventsOfType(types) == SelectSeq(events, LAMBDA e : e.type \in types)

IsPrefixOf(s, t) == Len(s) <= Len(t) /\ \A k \in 1..Len(s) : s[k] = t[k]

LastOf(s) == s[Len(s)]

TerminalEvents == {"chain_complete", "chain_failed", "timeout", "stopped"}

\* C1: a stage is executed only when its trigger keyword is the awaited one:
\* every entry added to the log of executions carries currentKeyword.
C1_OnlyAwaitedKeywordExecutes ==
    [][Len(executedChains') > Len(executedChains)
         => LastOf(executedChains').keyword = currentKeyword]_vars

\* C2: the stage indices of the executions are 0, 1, 2, ... in that order.
C2_StagesExecuteInOrder ==
    \A k \in 1..Len(executedChains) : executedChains[k].chainIndex = k - 1

\* C3: in the scripted run the stage events are, at any moment, a prefix of
\* chain_executed for the stages 0, 1, 2 in that order followed by one
\* chain_complete with totalStages = 3.
C3_Expected ==
    << Event("chain_executed", <<"A">>, "I0", 0, NoIndex),
       Event("chain_executed", <<"B">>, "I1", 1, NoIndex),
       Event("chain_executed", <<"C">>, "I2", 2, NoIndex),
       Event("chain_complete", NoKeyword, NoInstruction, NoIndex, 3) >>

C4_NoPollDuringDispatch ==
    \A t \in tasks : t.pc \in {"send", "wait"} => tasks = {t}

\* C5: while the monitor is stopped no poll cycle begins, no send attempt is
\* made and no stage is executed.
C5_NothingNewAfterStop ==
    [][(~isActive /\ ~isActive')
         => /\ pollCount' = pollCount
            /\ sendCount' = sendCount
            /\ executedChains' = executedChains]_vars

\* C6: a run that has ended has emitted exactly one terminal event, and no run
\* emits more than one.
C6_OneTerminalEvent ==
    starts <= 1 =>
        /\ Len(EventsOfType(TerminalEvents)) <= 1
        /\ (starts = 1 /\ ~isActive) => Len(EventsOfType(TerminalEvents)) = 1

\* C7: a monitor that has been started and is no longer active never becomes
\* active again.
C7_TerminalIsFinal ==
    [][(starts > 0 /\ ~isActive) => ~isActive']_vars

\* C8: the step in which the last attempt of a stage's dispatch fails emits
\* chain_failed with that stage's keyword and instruction, exactly once for the
\* stage, and leaves the monitor inactive with its timer cancelled; and no poll
\* cycle begins while the monitor is inactive.
Exhausted(outcomes) ==
    Len(outcomes) = retryAttempts /\ \A k \in 1..Len(outcomes) : outcomes[k] # "ok"

ChainFailedOf(i) ==
    Event("chain_failed", chains[i + 1].keyword, chains[i + 1].instruction, i, NoIndex)

C8_ExhaustedDispatchFails ==
    [][/\ \A i \in DOMAIN dispatches :
            (Exhausted(dispatches'[i]) /\ ~Exhausted(dispatches[i]))
              => /\ events' = events \o << ChainFailedOf(i) >>
                                     \o (IF isActive THEN << PlainEvent("stopped") >> ELSE <<>>)
                 /\ ~isActive'
                 /\ ~interval'
                 /\ Len(SelectSeq(events', LAMBDA e : e.type = "chain_failed"
                                                       /\ e.chainIndex = i)) = 1
       /\ Len(EventsOfType({"chain_failed"})') > Len(EventsOfType({"chain_failed"}))
            => \E i \in DOMAIN dispatches :
                   Exhausted(dispatches'[i]) /\ ~Exhausted(dispatches[i])
       /\ (~isActive /\ ~isActive')
            => /\ pollCount' = pollCount
               /\ {t \in tasks' : t.pc = "read"} \subseteq tasks]_vars

C8_Witness ==
    \E i \in DOMAIN dispatches :
        /\ Exhausted(dispatches[i])
        /\ ChainFailedOf(i) = LastOf(EventsOfType({"chain_failed"}))
        /\ ~isActive

\* C9: a dispatch makes at most retryAttempts attempts, every attempt before
\* its last one failed (by a failure result or by an exception), no attempt
\* follows a successful one, and it fails, reported by chain_failed, exactly
\* when retryAttempts attempts have failed.
C9_RetryPolicy ==
    \A i \in DOMAIN dispatches :
        LET outcomes == dispatches[i]
            inFlight == {t \in tasks : t.stage = i}
        IN  /\ Len(outcomes) <= retryAttempts
            /\ \A k \in 1..(Len(outcomes) - 1) : outcomes[k] \in {"fail", "throw"}
            /\ \A t \in inFlight :
                   /\ t.pc = "send" => t.attempt = Len(outcomes) + 1
                   /\ t.pc = "wait" => t.attempt = Len(outcomes)
                   /\ t.attempt <= retryAttempts
                   /\ Len(outcomes) > 0 => LastOf(outcomes) \in {"fail", "throw"}
            /\ (Len(outcomes) > 0 /\ inFlight = {})
                   => LastOf(outcomes) = "ok" \/ Exhausted(outcomes)
            /\ (\E k \in 1..Len(events) : events[k] = ChainFailedOf(i))
                   <=> Exhausted(outcomes)

C9_Witness ==
    \E i, j \in DOMAIN dispatches :
        /\ Len(dispatches[i]) = retryAttempts
        /\ dispatches[i][1] = "throw"
        /\ LastOf(dispatches[i]) = "ok"
        /\ Exhausted(dispatches[j])
        /\ \E k \in 1..Len(dispatches[j]) : dispatches[j][k] = "fail"

\* C10: every read failure is surfaced as an error event.
C10_ReadFailureEmitsError ==
    Len(EventsOfType({"error"})) = readFailures

\* C11: in a run whose session never shows a completion signal and that is not
\* stopped, the monitor times out: once started it eventually emits timeout;
\* the poll that begins with more than timeout elapsed is the one that emits
\* it; timeout is emitted once and reports 0 executed stages; and once it is
\* emitted no poll cycle begins, no read is issued and nothing is sent.
TimeoutEvents == EventsOfType({"timeout"})

C11_TimesOutOnce ==
    /\ (starts = 1) ~> (Len(TimeoutEvents) = 1)
    /\ [](/\ Len(TimeoutEvents) <= 1
          /\ \A k \in 1..Len(TimeoutEvents) : TimeoutEvents[k].count = 0)
    /\ [][/\ (pollCount' = pollCount + 1 /\ starts' = starts)
               => (Len(TimeoutEvents') = 1 <=> now - startTime > timeout)
          /\ Len(TimeoutEvents) = 1
               => /\ pollCount' = pollCount
                  /\ {t \in tasks' : t.pc = "read"} \subseteq tasks
                  /\ sendCount' = sendCount]_vars

C11_Witness ==
    /\ Len(TimeoutEvents) = 1
    /\ LastOf(TimeoutEvents).count = 0
    /\ pollCount = 3
    /\ Includes(outputBuffer, <<"A">>)
    /\ ~isActive

\* C12: timeout is emitted only by a poll that begins more than timeout after
\* start(), whatever was detected, dispatched or advanced meanwhile: start()
\* is called at time 0, so the time elapsed since start() is the clock itself;
\* startTime is written by start() alone and this.timeout by nobody.
C12_TimeoutCountsFromStart ==
    [][/\ Len(TimeoutEvents') > Len(TimeoutEvents)
            => (pollCount' = pollCount + 1 /\ now > TimedTimeout)
       /\ (pollCount' = pollCount + 1 /\ starts' = starts /\ now > TimedTimeout)
            => Len(TimeoutEvents') > Len(TimeoutEvents)
       /\ startTime' # startTime => (starts' = starts + 1 /\ startTime' = now)
       /\ timeout' = timeout]_vars

C12_Witness ==
    /\ Len(TimeoutEvents) = 1
    /\ LastOf(TimeoutEvents).chainIndex = 1
    /\ LastOf(TimeoutEvents).count = 2
    /\ \E k \in 1..Len(executedChains) : executedChains[k].timestamp = TimedTimeout

\* C13: a call of start() on a running monitor ends with AlreadyActiveError:
\* whenever the last call of start() or stop() was such a call, its outcome
\* is that error.
StartedWhileActive == lastCall \notin {"none", "started", "stopped", "not running"}

C13_StartWhileActiveFails ==
    StartedWhileActive => lastCall = "AlreadyActiveError"

\* C14: stop() on a monitor that is not running (never started, or already
\* stopped) changes nothing and emits nothing: the call only ends, as 'not
\* running'; no step taken from an inactive monitor emits stopped, so each
\* start() is answered by at most one stopped event.
StoppedEvents == EventsOfType({"stopped"})

C14_StopWhileInactiveIsNoOp ==
    /\ [](Len(StoppedEvents) <= starts)
    /\ [][/\ ~isActive => StoppedEvents' = StoppedEvents
          /\ (~isActive /\ lastCall' # lastCall /\ lastCall' \in {"stopped", "not running"})
                => /\ lastCall' = "not running"
                   /\ UNCHANGED << config, call, waits, runState, isActive, startTime, interval,
                                   pollCount, events, tasks, now, pane, starts,
                                   readFailures, sendCount, dispatches >>]_vars

C14_Witness ==
    /\ lastCall = "not running"
    /\ starts = 1
    /\ LastOf(events) = PlainEvent("stopped")
    /\ Len(StoppedEvents) = 1

\* C15: the buffer never holds more characters than its capacity, the window
\* of the slice.
C15_BufferWithinCapacity ==
    Len(outputBuffer) <= BufferWindow

\* C16: a keyword whose last occurrence in the buffer is at or before its
\* consumed offset is not detected: for every keyword with a consumed offset,
\* offset 0 included, the detector run on the buffer as it stands (the next
\* poll, when the read adds nothing) reports nothing while the last occurrence
\* has not moved past that offset.
C16_ConsumedOffsetNotDetected ==
    \A keyword \in DOMAIN lastDetectedPosition :
        (/\ Includes(outputBuffer, keyword)
         /\ LastIndexOf(outputBuffer, keyword) <= lastDetectedPosition[keyword])
            => ~detectKeywordInOutput(outputBuffer, lastDetectedPosition, keyword)

\* C17: when a keyword consumed at offset o1 is detected anew and offset o2 > o1
\* is recorded for it, the old occurrence still being in the buffer, the line
\* that holds the occurrence at o2 is a valid completion signal.
LineOfOffset(text, o) ==
    LET before == {k \in 1..o : text[k] = NL}
        after == {k \in (o + 1)..Len(text) : text[k] = NL}
        first == IF before = {} THEN 1 ELSE (CHOOSE k \in before : \A j \in before : j <= k) + 1
        last == IF after = {} THEN Len(text) ELSE (CHOOSE k \in after : \A j \in after : k <= j) - 1
    IN  SubSeq(text, first, last)

C17_NewDetectionAtSignalLine ==
    [][\A keyword \in DOMAIN lastDetectedPosition :
          LET o1 == lastDetectedPosition[keyword]
              o2 == lastDetectedPosition'[keyword]
          IN  (o1 < o2 /\ OccursAt(outputBuffer', keyword, o1))
                 => isActualCompletionSignal(LineOfOffset(outputBuffer', o2), keyword)]_vars

\* a read has returned in this step, and the scan of the buffer detected the
\* keyword of a stage that is in the log of executions already
ReadReturnedInStep ==
    /\ \E t \in tasks : t.pc = "read" /\ t \notin tasks'
    /\ readFailures' = readFailures

RedetectedInStep ==
    /\ ReadReturnedInStep
    /\ executedChains # <<>>
    /\ LET map == KeywordMap(chains)
           hit == FirstDetected(outputBuffer', lastDetectedPosition, map)
       IN  /\ hit # 0
           /\ \E k \in 1..Len(executedChains) :
                 /\ executedChains[k].keyword = map[hit].keyword
                 /\ executedChains[k].chainIndex = map[hit].chainIndex

NoDuplicateExecution ==
    \A j, k \in 1..Len(executedChains) :
        (/\ executedChains[j].keyword = executedChains[k].keyword
         /\ executedChains[j].chainIndex = executedChains[k].chainIndex) => j = k

\* C18 as stated: the log never holds a (keyword, stage index) pair twice, and
\* a poll that detects an already executed stage sends nothing, emits nothing
\* and changes no state besides the buffer it has just appended to.
C18_RedetectionChangesNothing ==
    /\ []NoDuplicateExecution
    /\ [][RedetectedInStep
            => /\ tasks' \subseteq tasks
               /\ UNCHANGED << executedChains, events, sendCount, dispatches,
                               currentKeyword, currentChainIndex, isActive, interval,
                               startTime, pollCount, lastDetectedPosition,
                               detectedKeywords >>]_vars

\* C18 as amended: the same, except that the detector has recorded the offset
\* of the occurrence it detected.
C18_NoDuplicateExecution ==
    /\ []NoDuplicateExecution
    /\ [][RedetectedInStep
            => /\ tasks' \subseteq tasks
               /\ UNCHANGED << executedChains, events, sendCount, dispatches,
                               currentKeyword, currentChainIndex, isActive, interval,
                               startTime, pollCount >>]_vars

C18_Witness ==
    /\ Len(executedChains) = 1
    /\ executedChains[1].keyword = <<"A">>
    /\ <<"A">> \in DOMAIN lastDetectedPosition
    /\ lastDetectedPosition[<<"A">>] > 0
    /\ currentChainIndex = 1
    /\ tasks = {}
    /\ Len(EventsOfType({"chain_executed"})) = 1

\* C19: the step in which a send attempt of stage i succeeds leaves, when the
\* stage has a nextKeyword, currentKeyword at that keyword, currentChainIndex
\* at i + 1 and the monitor active; otherwise it leaves the monitor inactive
\* with its timer cancelled and has emitted chain_complete.
SucceededInStep(i) == dispatches'[i] = Append(dispatches[i], "ok")

C19_SuccessAdvancesChain ==
    [][\A i \in DOMAIN dispatches :
          SucceededInStep(i)
            => IF chains[i + 1].nextKeyword # NoKeyword
               THEN /\ currentKeyword' = chains[i + 1].nextKeyword
                    /\ currentChainIndex' = i + 1
                    /\ isActive'
               ELSE /\ ~isActive'
                    /\ ~interval'
                    /\ Len(EventsOfType({"chain_complete"})')
                         = Len(EventsOfType({"chain_complete"})) + 1]_vars

\* C20: a send attempt that fails, and the wait before the next attempt, leave
\* currentKeyword and currentChainIndex as they are, also when the attempt is
\* the last one and the monitor gives up; they change only in a step in which
\* a send attempt succeeds.
FailedInStep(i) ==
    \E outcome \in SendOutcomes \ {"ok"} : dispatches'[i] = Append(dispatches[i], outcome)

C20_FailedDispatchKeepsChain ==
    [][/\ (\E i \in DOMAIN dispatches : FailedInStep(i))
            => UNCHANGED << currentKeyword, currentChainIndex >>
       /\ (currentKeyword' # currentKeyword \/ currentChainIndex' # currentChainIndex)
            => \E i \in DOMAIN dispatches : SucceededInStep(i)]_vars

C20_Witness ==
    /\ Exhausted(dispatches[0])
    /\ EventsOfType({"chain_failed"}) # <<>>
    /\ currentKeyword = <<"A">>
    /\ currentChainIndex = 0
    /\ ~isActive

\* C21 as stated: a line that consists of exactly the keyword is accepted, for
\* every keyword.
C21_EveryKeywordAloneAccepted ==
    (output.returned /\ input.line = input.keyword) => output.value

\* C21 as amended: it is accepted when the keyword holds none of the ignored
\* patterns, does not begin like a numbered item and has no blank at either end.
CleanKeyword(keyword) ==
    /\ \A pattern \in IgnoredPatterns(keyword) : ~Includes(keyword, pattern)
    /\ ~IsNumberedItem(keyword)
    /\ Trim(keyword) = keyword

C21_KeywordAloneAccepted ==
    (output.returned /\ input.line = input.keyword /\ CleanKeyword(input.keyword))
        => output.value

C21_Witness ==
    /\ output.returned
    /\ input.line = input.keyword
    /\ input.keyword = <<"a", ".", "c", ":">>
    /\ output.value

\* the line holds the keyword as a word among other words: set off by blanks
\* or the ends of the line, with a word (something besides blanks and status
\* markers) before or after it
HasWord(text) == \E k \in 1..Len(text) : text[k] \notin WhiteSpace \cup {Marker}

InSentence(line, keyword) ==
    LET text == Trim(line)
    IN  \E o \in 0..(Len(text) - Len(keyword)) :
           /\ OccursAt(text, keyword, o)
           /\ (o = 0 \/ text[o] \in WhiteSpace)
           /\ (o + Len(keyword) = Len(text) \/ text[o + Len(keyword) + 1] \in WhiteSpace)
           /\ \/ HasWord(SubSeq(text, 1, o))
              \/ HasWord(SubSeq(text, o + Len(keyword) + 1, Len(text)))

\* C22 as stated: a line that holds the keyword in a sentence is rejected.
C22_SentenceRejected ==
    (output.returned /\ InSentence(input.line, input.keyword)) => ~output.value

\* C22 as amended: it is rejected unless it is a short status line: the keyword
\* does not end with ':' and the trimmed line starts with the status marker,
\* ends with the keyword and is less than 10 characters longer than it.
ShortStatusLine(line, keyword) ==
    /\ ~EndsWith(keyword, <<":">>)
    /\ StartsWith(Trim(line), <<Marker>>)
    /\ EndsWith(Trim(line), keyword)
    /\ Len(Trim(line)) < Len(keyword) + MarkerSlack

C22_SentenceRejectedUnlessStatusLine ==
    (/\ output.returned
     /\ InSentence(input.line, input.keyword)
     /\ ~ShortStatusLine(input.line, input.keyword)) => ~output.value

C22_Witness ==
    /\ output.returned
    /\ input.keyword = <<"O", "K">>
    /\ input.line = <<"T","h","e","n"," ","s","a","y"," ","O","K"," ","w","h","e","n"," ","d","o","n","e">>
    /\ ~output.value

\* C23: for a keyword that does not end with ':' and a trimmed line without
\* ignored pattern that is no numbered item, the line is accepted exactly when
\* it is the keyword, or the status marker, a blank and the keyword, or starts
\* with the marker and ends with the keyword with at most 9 characters between
\* the two.
PlainCase(line, keyword) ==
    /\ ~EndsWith(keyword, <<":">>)
    /\ \A pattern \in IgnoredPatterns(keyword) : ~Includes(Trim(line), pattern)
    /\ ~IsNumberedItem(Trim(line))

Between(line, keyword) == Len(Trim(line)) - Len(keyword) - 1

C23_PlainAcceptance ==
    (output.returned /\ PlainCase(input.line, input.keyword))
        => (output.value <=>
              \/ Trim(input.line) = input.keyword
              \/ Trim(input.line) = <<Marker, " ">> \o input.keyword
              \/ /\ StartsWith(Trim(input.line), <<Marker>>)
                 /\ EndsWith(Trim(input.line), input.keyword)
                 /\ Between(input.line, input.keyword) <= 9)

\* C24: a line that contains "say K" in any letter case, or any other
\* ignored pattern, is rejected, also when it starts with the status marker,
\* ends with K and is short enough for the acceptance rule.
SayAnyCase(keyword) ==
    { <<s, a, y, " ">> \o keyword :
          s \in {"s", "S"}, a \in {"a", "A"}, y \in {"y", "Y"} }

Mentions(line, keyword) ==
    \E pattern \in IgnoredPatterns(keyword) \cup SayAnyCase(keyword) :
        Includes(Trim(line), pattern)

C24_MentionRejected ==
    (output.returned /\ Mentions(input.line, input.keyword)) => ~output.value

\* C25: for a keyword that ends with ':' and a trimmed line without ignored
\* pattern that is no numbered item, the line is accepted exactly when it,
\* or it without one leading status marker and the whitespace after it, is
\* the keyword, character by character, followed by zero or more
\* non-whitespace characters.
ColonCase(line, keyword) ==
    /\ EndsWith(keyword, <<":">>)
    /\ \A pattern \in IgnoredPatterns(keyword) : ~Includes(Trim(line), pattern)
    /\ ~IsNumberedItem(Trim(line))

KeywordThenSuffix(line, keyword) ==
    \E lead \in 0..Len(Trim(line)) :
        LET t == Trim(line)
            rest == SubSeq(t, lead + 1, Len(t))
        IN  /\ \/ lead = 0
               \/ /\ t[1] = Marker
                  /\ \A k \in 2..lead : t[k] \in WhiteSpace
                  /\ lead < Len(t) => t[lead + 1] \notin WhiteSpace
            /\ Len(rest) >= Len(keyword)
            /\ SubSeq(rest, 1, Len(keyword)) = keyword
            /\ \A k \in (Len(keyword) + 1)..Len(rest) : rest[k] \notin WhiteSpace

C25_ColonAcceptance ==
    (output.returned /\ ColonCase(input.line, input.keyword))
        => (output.value <=> KeywordThenSuffix(input.line, input.keyword))

C25_Witness ==
    /\ output.returned
    /\ input.keyword = <<"a", ".", "c", ":">>
    /\ input.line = <<Marker, " ", "a", ".", "c", ":", "x">>
    /\ output.value

(***************************************************************************)
(* Loading a chain definition: validateWorkflow and loadWorkflow (preset   *)
(* path), buildWorkflowFromPreset, the launcher's main (direct path) and   *)
(* the constructor of the monitor.  An object is a function from the names *)
(* of the properties it has; a property that is not there reads undefined. *)
(* A text is a sequence of pieces, the placeholder being one piece.        *)
(***************************************************************************)
\* stages of the chain definitions tried
MaxStages == 2
\* greatest option value tried
MaxOption == 2

TaskPlaceholder == "{{TASK}}"
TaskText == "the task"

\* !obj[field], where '' or 0 is the falsy value of the property's type
Missing(obj, field, falsy) == field \notin DOMAIN obj \/ obj[field] = falsy

\* obj without the properties not named
Only(obj, fields) == [f \in fields \cap DOMAIN obj |-> obj[f]]

\* text.replace(/\{\{TASK\}\}/g, value) for each entry of replacements
replaceTemplatePlaceholders(text, replacements) ==
    [k \in 1..Len(text) |->
        IF text[k] \in DOMAIN replacements THEN replacements[text[k]] ELSE text[k]]

TaskReplacement(task) == [placeholder \in {TaskPlaceholder} |-> task]

ErrorIf(condition, error) == IF condition THEN << error >> ELSE <<>>

RECURSIVE ChainErrors(_, _)
\* workflow.chains.forEach((chain, index) => ...), from index on
ChainErrors(chs, index) ==
    IF index >= Len(chs) THEN <<>>
    ELSE LET chain == chs[index + 1]
         IN  ErrorIf(Missing(chain, "keyword", <<>>),
                     [error |-> "missing required field", chain |-> index,
                      field |-> "keyword"])
             \o ErrorIf(Missing(chain, "instruction", <<>>),
                        [error |-> "missing required field", chain |-> index,
                         field |-> "instruction"])
             \o ErrorIf(index < Len(chs) - 1 /\ Missing(chain, "nextKeyword", <<>>),
                        [error |-> "missing nextKeyword", chain |-> index,
                         field |-> "nextKeyword"])
             \o ChainErrors(chs, index + 1)

\* validateWorkflow(workflow), for a workflow whose chains, if there, are an
\* array and whose options, if there, are an object
validateWorkflow(workflow) ==
    LET errors ==
            ErrorIf(Missing(workflow, "name", ""),
                    [error |-> "Missing required field", field |-> "name"])
            \o ErrorIf(Missing(workflow, "description", ""),
                       [error |-> "Missing required field", field |-> "description"])
            \o ErrorIf("chains" \notin DOMAIN workflow,
                       [error |-> "Missing required field", field |-> "chains"])
            \o ErrorIf(Missing(workflow, "initialPrompt", <<>>),
                       [error |-> "Missing required field", field |-> "initialPrompt"])
            \o ErrorIf("options" \notin DOMAIN workflow,
                       [error |-> "Missing required field", field |-> "options"])
            \o (IF "chains" \in DOMAIN workflow
                THEN ErrorIf(Len(workflow.chains) = 0,
                             [error |-> "Chains array cannot be empty",
                              field |-> "chains"])
                     \o ChainErrors(workflow.chains, 0)
                ELSE <<>>)
            \o ErrorIf(/\ ~Missing(workflow, "initialPrompt", <<>>)
                       /\ \A k \in 1..Len(workflow.initialPrompt) :
                              workflow.initialPrompt[k] # TaskPlaceholder,
                       [error |-> "initialPrompt should include {{TASK}} placeholder",
                        field |-> "initialPrompt"])
    IN  [valid |-> Len(errors) = 0, errors |-> errors]

\* what a call gives: an exception or a result
Threw(message) == [thrown |-> TRUE, message |-> message]
Gave(result) == [thrown |-> FALSE, result |-> result]

\* loadWorkflow(name), workflow being what the file of that name holds
loadWorkflow(workflow) ==
    LET validation == validateWorkflow(workflow)
    IN  IF ~validation.valid THEN Threw("Invalid workflow") ELSE Gave(workflow)

\* The stage objects of a process are a heap, a sequence of objects in the
\* order of their creation; an array of stages is a sequence of addresses.
\* A loaded array of n stages holds the objects 1..n.
Addresses(from, n) == [k \in 1..n |-> from + k]

\* {...chain, instruction: instruction}
SpreadWithInstruction(chain, instruction) ==
    [f \in DOMAIN chain \cup {"instruction"} |->
        IF f = "instruction" THEN instruction ELSE chain[f]]

ProcessedChainsInPlace(loaded, task) ==
    [heap |-> [k \in 1..Len(loaded) |->
                  SpreadWithInstruction(loaded[k],
                      replaceTemplatePlaceholders(loaded[k].instruction,
                                                  TaskReplacement(task)))],
     chains |-> Addresses(0, Len(loaded))]

\* config.chains.map(chain => ({...chain, instruction: replaced})): a new
\* object for every stage, the loaded ones left as they are
ProcessedChains(loaded, task) ==
    [heap |-> loaded \o
              [k \in 1..Len(loaded) |->
                  SpreadWithInstruction(loaded[k],
                      replaceTemplatePlaceholders(loaded[k].instruction,
                                                  TaskReplacement(task)))],
     chains |-> Addresses(Len(loaded), Len(loaded))]

\* {keyword: chain.keyword, instruction: replaced,
\*  ...(chain.nextKeyword && {nextKeyword: chain.nextKeyword})}
PresetStage(chain, task) ==
    Only([keyword |-> chain.keyword,
          instruction |-> replaceTemplatePlaceholders(chain.instruction,
                                                      TaskReplacement(task)),
          nextKeyword |-> IF "nextKeyword" \in DOMAIN chain
                          THEN chain.nextKeyword ELSE <<>>],
         {"keyword", "instruction"}
             \cup (IF Missing(chain, "nextKeyword", <<>>) THEN {} ELSE {"nextKeyword"}))

UnsetInstanceId == "YOUR_INSTANCE_ID"

\* buildWorkflowFromPreset(presetName, task, instanceId), workflow being what
\* the preset's file holds and '' an instanceId not given
buildWorkflowFromPreset(workflow, task, instanceId) ==
    LET loaded == loadWorkflow(workflow)
    IN  IF loaded.thrown THEN loaded
        ELSE LET n == Len(workflow.chains)
             IN  Gave([heap |-> workflow.chains \o
                                [k \in 1..n |-> PresetStage(workflow.chains[k], task)],
                       config |->
                           [instanceId |-> IF instanceId = "" THEN UnsetInstanceId
                                           ELSE instanceId,
                            taskDescription |-> task,
                            chains |-> Addresses(n, n),
                            initialPrompt |->
                                replaceTemplatePlaceholders(workflow.initialPrompt,
                                                            TaskReplacement(task)),
                            options |-> workflow.options]])

DefaultPollInterval == 5
DefaultTimeout == 600
DefaultRetryAttempts == 3
DefaultRetryDelay == 2
MsPerSecond == 1000

\* options[name] || default
OptionOr(options, name, default) ==
    IF Missing(options, name, 0) THEN default ELSE options[name]

\* new ChainKeywordMonitor(cfg), cfg.chains being an array of stages of
\* the heap if it is there
ChainKeywordMonitor(cfg, heap) ==
    IF Missing(cfg, "instanceId", "")
    THEN Threw("Missing required config: instanceId")
    ELSE IF "chains" \notin DOMAIN cfg
    THEN Threw("Missing required config: chains array")
    ELSE LET options == IF "options" \in DOMAIN cfg THEN cfg.options
                        ELSE [name \in {} |-> 0]
         IN  Gave([instanceId |-> cfg.instanceId,
                   chains |-> cfg.chains,
                   pollInterval |->
                       OptionOr(options, "pollInterval", DefaultPollInterval)
                           * MsPerSecond,
                   timeout |-> OptionOr(options, "timeout", DefaultTimeout)
                                   * MsPerSecond,
                   retryAttempts |->
                       OptionOr(options, "retryAttempts", DefaultRetryAttempts),
                   retryDelay |-> OptionOr(options, "retryDelay", DefaultRetryDelay)
                                      * MsPerSecond,
                   currentChainIndex |-> 0,
                   currentKeyword |->
                       IF \/ cfg.chains = <<>>
                          \/ "keyword" \notin DOMAIN heap[cfg.chains[1]]
                       THEN NoKeyword
                       ELSE heap[cfg.chains[1]].keyword,
                   isActive |-> FALSE])

InitialPromptDeliveredAlways(sent) == TRUE

\* sendResult.success of the initial prompt
InitialPromptDelivered(sent) == sent

\* main() of the launcher up to the constructed monitor: cfg is what the
\* config file holds, instanceId the command line's ('' when not given),
\* latest what getLatestInstanceId gives and sent whether sendToInstance
\* delivered the initial prompt
mainUntilStart(cfg, instanceId, latest, sent) ==
    IF Missing(cfg, "taskDescription", "")
    THEN Threw("Config must include taskDescription field")
    ELSE IF Missing(cfg, "initialPrompt", <<>>)
    THEN Threw("Config must include initialPrompt field")
    ELSE IF "chains" \notin DOMAIN cfg
    THEN Threw("TypeError")
    ELSE IF \E k \in 1..Len(cfg.chains) : "instruction" \notin DOMAIN cfg.chains[k]
    THEN Threw("TypeError")
    ELSE IF ~InitialPromptDelivered(sent)
    THEN Threw("Failed to send initial prompt")
    ELSE LET id == IF instanceId # "" THEN instanceId
                   ELSE IF "instanceId" \notin DOMAIN cfg THEN ""
                   ELSE IF cfg.instanceId = UnsetInstanceId THEN latest
                   ELSE cfg.instanceId
             processed == ProcessedChains(cfg.chains, cfg.taskDescription)
             processedConfig ==
                 [f \in DOMAIN cfg \cup {"instanceId"} |->
                     IF f = "instanceId" THEN id
                     ELSE IF f = "chains" THEN processed.chains
                     ELSE cfg[f]]
             monitor == ChainKeywordMonitor(processedConfig, processed.heap)
         IN  IF monitor.thrown THEN monitor
             ELSE Gave([heap |-> processed.heap, monitor |-> monitor.result])

\* main() of the launcher: the monitor constructed is started
main(cfg, instanceId, latest, sent) ==
    LET built == mainUntilStart(cfg, instanceId, latest, sent)
    IN  IF built.thrown THEN built
        ELSE Gave([built.result EXCEPT !.monitor.isActive = TRUE])

(***************************************************************************)
(* Calls of the loading functions on chain definitions of up to MaxStages  *)
(* stages, well formed or not.                                             *)
(***************************************************************************)
StageKeywords == { <<"A">>, <<"B">> }
StageInstructions == { << "Do ", TaskPlaceholder >>, <<>> }

\* a stage has each property or not; an instruction may be the empty string
StageCandidates ==
    { Only(stage, fields) :
          stage \in [keyword : StageKeywords, instruction : StageInstructions,
                     nextKeyword : StageKeywords],
          fields \in SUBSET {"keyword", "instruction", "nextKeyword"} }

ChainCandidates(maxStages) ==
    UNION { [1..n -> StageCandidates] : n \in 0..maxStages }

WellFormedChain ==
    << [keyword |-> <<"A">>, instruction |-> << "Do ", TaskPlaceholder >>,
        nextKeyword |-> <<"B">>],
       [keyword |-> <<"B">>, instruction |-> << "Check ", TaskPlaceholder >>] >>

OptionNames == {"pollInterval", "timeout", "retryAttempts", "retryDelay"}

\* an options object has each option or not, 0 included
OptionCandidates(maxOption) ==
    UNION { [names -> 0..maxOption] : names \in SUBSET OptionNames }

WorkflowOf(chs, options) ==
    [name |-> "w", description |-> "d", chains |-> chs,
     initialPrompt |-> << "Start ", TaskPlaceholder >>, options |-> options]

WorkflowCandidates(maxStages) ==
    { WorkflowOf(chs, [retryAttempts |-> 1]) : chs \in ChainCandidates(maxStages) }
    \cup { Only(WorkflowOf(WellFormedChain, [names \in {} |-> 0]), fields) :
               fields \in SUBSET {"name", "description", "chains",
                                  "initialPrompt", "options"} }
    \cup { [WorkflowOf(WellFormedChain, [retryAttempts |-> 1])
               EXCEPT !.initialPrompt = << "Start" >>] }

ConfigOf(chs, options) ==
    [instanceId |-> UnsetInstanceId, taskDescription |-> TaskText, chains |-> chs,
     initialPrompt |-> << "Start ", TaskPlaceholder >>, options |-> options]

ConfigCandidates(maxStages, maxOption) ==
    { ConfigOf(chs, [retryAttempts |-> 1]) : chs \in ChainCandidates(maxStages) }
    \cup { ConfigOf(WellFormedChain, options) : options \in OptionCandidates(maxOption) }
    \cup { Only(ConfigOf(WellFormedChain, [retryAttempts |-> 1]), fields) :
               fields \in SUBSET {"instanceId", "taskDescription", "chains",
                                  "initialPrompt", "options"} }

LatestInstanceId == "spec_1"

ConfigInputs(maxStages, maxOption) ==
    { [function |-> "validateWorkflow", workflow |-> workflow] :
          workflow \in WorkflowCandidates(maxStages) }
    \cup { [function |-> "buildWorkflowFromPreset", workflow |-> workflow,
            task |-> TaskText, instanceId |-> instanceId] :
               workflow \in WorkflowCandidates(maxStages), instanceId \in {"", "spec_2"} }
    \cup { [function |-> "main", config |-> cfg, instanceId |-> instanceId,
            latest |-> LatestInstanceId, sent |-> sent] :
               cfg \in ConfigCandidates(maxStages, maxOption),
               instanceId \in {"", "spec_2"},
               sent \in BOOLEAN }

ConfigInit ==
    /\ Constructed(TwoStageChain, Timeout, RetryAttempts)
    /\ input \in ConfigInputs(MaxStages, MaxOption)
    /\ output = NoOutput

ValidateWorkflowReturns ==
    /\ output = NoOutput
    /\ input.function = "validateWorkflow"
    /\ output' = Returned(validateWorkflow(input.workflow))
    /\ UNCHANGED << config, runState, isActive, startTime, interval, pollCount, events,
                    tasks, now, pane, starts, readFailures, sendCount, dispatches,
                    lastCall, waits, input >>

BuildWorkflowFromPresetReturns ==
    /\ output = NoOutput
    /\ input.function = "buildWorkflowFromPreset"
    /\ output' = Returned(buildWorkflowFromPreset(input.workflow, input.task,
                                                  input.instanceId))
    /\ UNCHANGED << config, runState, isActive, startTime, interval, pollCount, events,
                    tasks, now, pane, starts, readFailures, sendCount, dispatches,
                    lastCall, waits, input >>

MainReturns ==
    /\ output = NoOutput
    /\ input.function = "main"
    /\ output' = Returned(main(input.config, input.instanceId, input.latest,
                               input.sent))
    /\ UNCHANGED << config, runState, isActive, startTime, interval, pollCount, events,
                    tasks, now, pane, starts, readFailures, sendCount, dispatches,
                    lastCall, waits, input >>

ConfigNext ==
    \/ ValidateWorkflowReturns
    \/ BuildWorkflowFromPresetReturns
    \/ MainReturns

SpecConfig == ConfigInit /\ [][ConfigNext]_vars

\* C26: a workflow that validation accepts has an intact keyword linkage: its
\* stages have distinct trigger keywords, the nextKeyword of every stage but
\* the last is the trigger keyword of exactly one later stage, and the last
\* stage has no nextKeyword.
LinkageIntact(chs) ==
    /\ \A i \in 1..Len(chs) : ~Missing(chs[i], "keyword", <<>>)
    /\ \A i, j \in 1..Len(chs) : chs[i].keyword = chs[j].keyword => i = j
    /\ \A i \in 1..(Len(chs) - 1) :
           /\ ~Missing(chs[i], "nextKeyword", <<>>)
           /\ Cardinality({ j \in (i + 1)..Len(chs) :
                                chs[j].keyword = chs[i].nextKeyword }) = 1
    /\ chs # <<>> => Missing(chs[Len(chs)], "nextKeyword", <<>>)

C26_AcceptedLinkageIntact ==
    /\ (output.returned /\ input.function = "validateWorkflow"
            /\ output.value.valid)
           => LinkageIntact(input.workflow.chains)
    /\ (output.returned /\ input.function = "buildWorkflowFromPreset"
            /\ ~output.value.thrown)
           => LinkageIntact(input.workflow.chains)

\* C27: a chain definition that is empty or has a stage without keyword or
\* without instruction is rejected with an error on the preset path
\* (buildWorkflowFromPreset, which loads with loadWorkflow) and on the direct
\* path (the launcher's main): no monitor is constructed and started on it.
Malformed(chs) ==
    \/ chs = <<>>
    \/ \E i \in 1..Len(chs) : \/ Missing(chs[i], "keyword", <<>>)
                              \/ Missing(chs[i], "instruction", <<>>)

C27_MalformedRejected ==
    /\ (/\ output.returned
        /\ input.function = "buildWorkflowFromPreset"
        /\ "chains" \in DOMAIN input.workflow
        /\ Malformed(input.workflow.chains))
           => output.value.thrown
    /\ (/\ output.returned
        /\ input.function = "main"
        /\ "chains" \in DOMAIN input.config
        /\ Malformed(input.config.chains))
           => output.value.thrown

\* C30: the monitor that main constructs uses every configured option as
\* given, 0 included (seconds in milliseconds), and the default only for an
\* option that is absent.
OptionUnit(name) == IF name = "retryAttempts" THEN 1 ELSE MsPerSecond

OptionDefault(name) ==
    CASE name = "pollInterval" -> DefaultPollInterval
      [] name = "timeout" -> DefaultTimeout
      [] name = "retryAttempts" -> DefaultRetryAttempts
      [] name = "retryDelay" -> DefaultRetryDelay

C30_OptionsAsConfigured ==
    (/\ output.returned
     /\ input.function = "main"
     /\ ~output.value.thrown
     /\ "options" \in DOMAIN input.config)
        => \A name \in OptionNames :
               output.value.result.monitor[name] =
                   OptionUnit(name) *
                       (IF name \in DOMAIN input.config.options
                        THEN input.config.options[name]
                        ELSE OptionDefault(name))

(***************************************************************************)
(* Runs for every retryAttempts from 1 to MaxAttempts: one start, sends    *)
(* that succeed, fail or throw.                                            *)
(***************************************************************************)
MaxAttempts == 3

RetryInit ==
    \E attempts \in 1..MaxAttempts :
        /\ Constructed(TwoStageChain, Timeout, attempts)
        /\ input = NoInput
        /\ output = NoOutput

RetryNext ==
    \/ Start(1, MaxPolls)
    \/ IntervalFires(MaxPolls)
    \/ \E t \in tasks, screen \in Screens : ReadReturns(t, screen)
    \/ \E t \in tasks, outcome \in SendOutcomes : SendReturns(t, outcome)
    \/ \E t \in tasks : RetryDelayElapses(t)

SpecRetry == RetryInit /\ [][RetryNext]_vars

\* C29: a dispatch sets the retryDelay timer once after every failed attempt
\* but the last one: a dispatch whose attempts all failed has waited
\* retryAttempts - 1 times and is not waiting, and a dispatch in flight has
\* waited once per attempt made, the attempt it waits after included.
C29_WaitsBetweenAttempts ==
    \A i \in DOMAIN dispatches :
        LET outcomes == dispatches[i]
            inFlight == {t \in tasks : t.stage = i /\ t.pc \in {"send", "wait"}}
        IN  /\ waits[i] <= retryAttempts - 1
            /\ Exhausted(outcomes)
                   => waits[i] = retryAttempts - 1 /\ inFlight = {}
            /\ \A t \in inFlight : waits[i] = Len(outcomes)
            /\ (outcomes # <<>> /\ LastOf(outcomes) = "ok")
                   => waits[i] = Len(outcomes) - 1

C29_Witness ==
    \E i, j \in DOMAIN dispatches :
        /\ retryAttempts = 3
        /\ Exhausted(dispatches[i])
        /\ waits[i] = 2
        /\ dispatches[j] # <<>>
        /\ LastOf(dispatches[j]) = "ok"
        /\ waits[j] = 0

(***************************************************************************)
(* Runs of the monitor that the launcher constructs, from a config file    *)
(* written by hand (direct path) or by quick_task from a preset.           *)
(***************************************************************************)
LaunchChains ==
    { WellFormedChain,
      << [keyword |-> <<"A">>, instruction |-> << TaskPlaceholder, " now" >>] >> }

\* JSON.stringify(config) as createTempConfig writes it and the launcher
\* parses it: the stages by value
ConfigFile(built) ==
    [f \in DOMAIN built.config |->
        IF f = "chains"
        THEN [k \in 1..Len(built.config.chains) |-> built.heap[built.config.chains[k]]]
        ELSE built.config[f]]

MainCall(cfg) ==
    [function |-> "main", config |-> cfg, instanceId |-> "",
     latest |-> LatestInstanceId, sent |-> TRUE]

LaunchInputs ==
    { MainCall(ConfigOf(chs, [retryAttempts |-> RetryAttempts])) : chs \in LaunchChains }
    \cup { [f \in {"function", "config", "instanceId", "latest", "sent", "preset"} |->
               IF f = "preset"
               THEN [workflow |-> workflow,
                     built |-> buildWorkflowFromPreset(workflow, TaskText, "").result]
               ELSE MainCall(ConfigFile(
                        buildWorkflowFromPreset(workflow, TaskText, "").result))[f]] :
           workflow \in { WorkflowOf(chs, [retryAttempts |-> RetryAttempts]) :
                              chs \in LaunchChains } }

\* this.chains as the monitor reads it: a property not there reads undefined
MonitorChains(heap, addresses) ==
    [k \in 1..Len(addresses) |->
        Stage(heap[addresses[k]].keyword, heap[addresses[k]].instruction,
              IF "nextKeyword" \in DOMAIN heap[addresses[k]]
              THEN heap[addresses[k]].nextKeyword ELSE NoKeyword)]

LaunchInit ==
    \E launch \in LaunchInputs :
        LET built == mainUntilStart(launch.config, launch.instanceId,
                                    launch.latest, launch.sent)
        IN  /\ ~built.thrown
            /\ Constructed(MonitorChains(built.result.heap, built.result.monitor.chains),
                           Timeout, built.result.monitor.retryAttempts)
            /\ input = launch
            /\ output = Returned(built)

SpecLaunch == LaunchInit /\ [][SingleRunNext]_vars

\* C28: the stages loaded from the file are, after the launcher and the
\* preset builder have run, what they were; the stages each of them builds
\* are new objects that agree with the loaded ones but for the task put in
\* place of the placeholder of the instruction; and in every state of the
\* run this.chains is that derived copy.
Substituted(template, text, task) ==
    /\ Len(text) = Len(template)
    /\ \A k \in 1..Len(template) :
           text[k] = (IF template[k] = TaskPlaceholder THEN task ELSE template[k])

DerivedFrom(loaded, heap, addresses, task) ==
    /\ Len(addresses) = Len(loaded)
    /\ \A k \in 1..Len(loaded) :
           /\ heap[k] = loaded[k]
           /\ addresses[k] > Len(loaded)
           /\ DOMAIN heap[addresses[k]] = DOMAIN loaded[k]
           /\ \A f \in DOMAIN loaded[k] \ {"instruction"} :
                  heap[addresses[k]][f] = loaded[k][f]
           /\ Substituted(loaded[k].instruction, heap[addresses[k]].instruction, task)

C28_LoadedChainNeverMutated ==
    /\ DerivedFrom(input.config.chains, output.value.result.heap,
                   output.value.result.monitor.chains, input.config.taskDescription)
    /\ \A k \in 1..Len(input.config.chains) :
           /\ chains[k].keyword = input.config.chains[k].keyword
           /\ "nextKeyword" \in DOMAIN input.config.chains[k]
                  => chains[k].nextKeyword = input.config.chains[k].nextKeyword
           /\ Substituted(input.config.chains[k].instruction, chains[k].instruction,
                          input.config.taskDescription)
    /\ Len(chains) = Len(input.config.chains)
    /\ "preset" \in DOMAIN input
           => DerivedFrom(input.preset.workflow.chains, input.preset.built.heap,
                          input.preset.built.config.chains, TaskText)

C28_Witness ==
    /\ "preset" \in DOMAIN input
    /\ Len(chains) = 2
    /\ Len(executedChains) = 2
    /\ \E i \in DOMAIN dispatches : Exhausted(dispatches[i])
    /\ lastCall = "stopped"

(***************************************************************************)
(* The launcher's process around the monitor: main sends the initial       *)
(* prompt, constructs the monitor, registers its event handlers and calls  *)
(* start(); SIGINT calls stop().  The handlers of chain_complete,          *)
(* chain_failed, timeout and error call process.exit, after which nothing  *)
(* runs: what the step that emitted the event leaves in the monitor's      *)
(* fields behind the exit is of no account.                                *)
(***************************************************************************)
NoExit == 0 - 1

\* the exit code of the first handler that calls process.exit
RECURSIVE ExitCode(_)
ExitCode(evs) ==
    IF evs = <<>> THEN NoExit
    ELSE IF Head(evs).type = "chain_complete" THEN 0
    ELSE IF Head(evs).type \in {"chain_failed", "timeout", "error"} THEN 1
    ELSE ExitCode(Tail(evs))

LauncherInputs ==
    { [function |-> "main",
       config |-> ConfigOf(WellFormedChain, [retryAttempts |-> RetryAttempts]),
       instanceId |-> "", latest |-> LatestInstanceId, sent |-> sent] :
          sent \in BOOLEAN }

\* main() has run up to monitor.start(), or has thrown: then there is no
\* monitor, and the fields are those of one never started
LauncherInit ==
    \E launch \in LauncherInputs :
        LET built == mainUntilStart(launch.config, launch.instanceId,
                                    launch.latest, launch.sent)
        IN  /\ input = launch
            /\ output = Returned(built)
            /\ IF built.thrown
               THEN Constructed(<<>>, Timeout, RetryAttempts)
               ELSE Constructed(MonitorChains(built.result.heap,
                                              built.result.monitor.chains),
                                Timeout, built.result.monitor.retryAttempts)

\* the launcher's process is alive and has a monitor
LauncherRuns == ~output.value.thrown /\ ExitCode(events) = NoExit

LauncherNext ==
    \/ LauncherRuns /\ Start(1, MaxPolls)
    \/ LauncherRuns /\ Stop
    \/ LauncherRuns /\ IntervalFires(MaxPolls)
    \/ \E t \in tasks : LauncherRuns /\ ReadFails(t)
    \/ \E t \in tasks, screen \in Screens : LauncherRuns /\ ReadReturns(t, screen)
    \/ \E t \in tasks, outcome \in SendOutcomes : LauncherRuns /\ SendReturns(t, outcome)
    \/ \E t \in tasks : LauncherRuns /\ RetryDelayElapses(t)

SpecLauncher == LauncherInit /\ [][LauncherNext]_vars

\* C31: the launcher's process ends only when the chain completes, a dispatch
\* fails or the run times out; a failed read of the session does not end it.
C31_ReadFailureKeepsRun ==
    ExitCode(events) # NoExit
        => EventsOfType({"chain_complete", "chain_failed", "timeout"}) # <<>>

\* C38: when the initial prompt is not delivered, main throws before it
\* constructs the monitor: nothing is started, no poll runs, nothing is sent
\* and no event is emitted; a monitor that was started had its prompt
\* delivered.
C38_NoMonitorWithoutPrompt ==
    /\ ~input.sent
           => /\ output.value.thrown
              /\ starts = 0
              /\ ~isActive
              /\ pollCount = 0
              /\ sendCount = 0
              /\ tasks = {}
              /\ events = <<>>
    /\ starts > 0 => input.sent /\ ~output.value.thrown

C38_Witness ==
    /\ ~input.sent
    /\ output.returned
    /\ output.value.thrown
    /\ output.value.message = "Failed to send initial prompt"

\* C32: in a poll whose read returns and leaves in the buffer a new valid
\* completion signal of the awaited keyword, the awaited stage, if it was not
\* executed before, is executed in that poll, whatever else the buffer shows.
AwaitedExecutedInStep ==
    /\ Len(executedChains') = Len(executedChains) + 1
    /\ LastOf(executedChains').keyword = currentKeyword
    /\ LastOf(executedChains').chainIndex = currentChainIndex

C32_AwaitedNotMasked ==
    [][ (/\ ReadReturnedInStep
         /\ ~AlreadyExecuted(executedChains, currentKeyword, currentChainIndex)
         /\ detectKeywordInOutput(outputBuffer', lastDetectedPosition, currentKeyword))
             => AwaitedExecutedInStep]_vars

\* C33: once a started monitor is no longer active, no step changes
\* currentKeyword, currentChainIndex, outputBuffer, the recorded offsets or
\* the log of executions, and none emits chain_executed, chain_complete or
\* chain_failed, also when a read or a send that was awaited resumes.
StageEvents == {"chain_executed", "chain_complete", "chain_failed"}

C33_FrozenAfterActive ==
    [][(starts > 0 /\ ~isActive)
         => /\ UNCHANGED << currentKeyword, currentChainIndex, outputBuffer,
                            lastDetectedPosition, executedChains >>
            /\ EventsOfType(StageEvents)' = EventsOfType(StageEvents)]_vars

\* C34: when chain_complete has been emitted, every stage of the chain is in
\* the log of executions exactly once, its dispatch ended with a successful
\* send, and the totalStages reported is the number of stages of the chain.
ExecutionsOf(i) == SelectSeq(executedChains, LAMBDA e : e.chainIndex = i)

C34_CompleteMeansAllStages ==
    \A k \in 1..Len(events) :
        events[k].type = "chain_complete"
            => /\ events[k].count = Len(chains)
               /\ \A i \in 0..(Len(chains) - 1) :
                      /\ Len(ExecutionsOf(i)) = 1
                      /\ dispatches[i] # <<>>
                      /\ LastOf(dispatches[i]) = "ok"

(***************************************************************************)
(* Runs of the monitor on every chain definition of up to MaxStages stages *)
(* that loadWorkflow accepts, launched from the preset: one start, sends   *)
(* that succeed or fail.                                                   *)
(***************************************************************************)
PresetLaunch(workflow) ==
    [function |-> "main",
     config |-> ConfigFile(buildWorkflowFromPreset(workflow, TaskText, "").result),
     instanceId |-> "", latest |-> LatestInstanceId, sent |-> TRUE,
     preset |-> [workflow |-> workflow,
                 built |-> buildWorkflowFromPreset(workflow, TaskText, "").result]]

AcceptedWorkflows(maxStages) ==
    { workflow \in WorkflowCandidates(maxStages) : ~loadWorkflow(workflow).thrown }

PresetInit ==
    \E workflow \in AcceptedWorkflows(MaxStages) :
        LET launch == PresetLaunch(workflow)
            built == mainUntilStart(launch.config, launch.instanceId,
                                    launch.latest, launch.sent)
        IN  /\ ~built.thrown
            /\ Constructed(MonitorChains(built.result.heap, built.result.monitor.chains),
                           Timeout, built.result.monitor.retryAttempts)
            /\ input = launch
            /\ output = Returned(built)

PresetNext ==
    \/ Start(1, MaxPolls)
    \/ IntervalFires(MaxPolls)
    \/ \E t \in tasks, screen \in Screens : ReadReturns(t, screen)
    \/ \E t \in tasks, outcome \in {"ok", "fail"} : SendReturns(t, outcome)
    \/ \E t \in tasks : RetryDelayElapses(t)

SpecPreset == PresetInit /\ [][PresetNext]_vars

\* C35: in every state of a monitor on a chain that validation accepted,
\* currentChainIndex is the index of a stage and currentKeyword is the
\* keyword of that stage.
C35_IndexAndKeywordAgree ==
    /\ 0 <= currentChainIndex
    /\ currentChainIndex < Len(chains)
    /\ currentKeyword = chains[currentChainIndex + 1].keyword

\* the lines of the text a read returned that are valid completion signals of
\* a keyword of the chain
SignalLines(lines) ==
    { i \in 1..Len(lines) :
        \E k \in 1..Len(chains) : isActualCompletionSignal(lines[i], chains[k].keyword) }

\* C37: accumulating a read keeps line boundaries: every valid completion-signal
\* line of the text the read returned is a line of its own of outputBuffer after
\* the append, at the place it has in the text read.
C37_ReadLinesStaySeparate ==
    [][ReadReturnedInStep =>
         LET read == SplitLines(ReadOutput(pane'))
             buffer == SplitLines(outputBuffer')
         IN  \A i \in SignalLines(read) :
                 /\ Len(buffer) >= Len(read)
                 /\ buffer[Len(buffer) - Len(read) + i] = read[i]]_vars

(***************************************************************************)
(* A run against a session that shows the user's prompt: a line that       *)
(* starts with '>' and, after it, a keyword on a line of its own.          *)
(***************************************************************************)
UserPrompt == <<">", " ", "x">>

\* what the session may show: nothing, the keyword line of the first stage, the
\* user's prompt followed by a keyword line, or a request followed by one
UserScreens ==
    { <<>>,
      << <<"A">> >>,
      << UserPrompt, <<"A">> >>,
      << UserPrompt, <<"B">> >>,
      << <<"p","l","z"," ","s","a","y">>, <<"B">> >> }

UserInputInit == InitWith(TwoStageChain)

UserInputNext ==
    \/ Start(1, MaxPolls)
    \/ IntervalFires(MaxPolls)
    \/ \E t \in tasks, screen \in UserScreens : ReadReturns(t, screen)
    \/ \E t \in tasks, outcome \in {"ok", "fail"} : SendReturns(t, outcome)
    \/ \E t \in tasks : RetryDelayElapses(t)

SpecUserInput == UserInputInit /\ [][UserInputNext]_vars

\* line i of the lines lies in a user-command region: a line at or before it
\* starts with '>' and no line from that one to line i holds the status marker
InUserCommand(lines, i) ==
    \E j \in 1..i :
        /\ StartsWith(Trim(lines[j]), <<">">>)
        /\ \A m \in j..i : ~Includes(lines[m], <<Marker>>)

UserPhrases ==
    { <<"p","l","z"," ","s","a","y">>,
      <<"p","l","e","a","s","e"," ","s","a","y">>,
      <<"t","y","p","e",":">> }

\* the lines of what the session showed that hold the keyword outside every
\* user-command region and without a phrase of the user
LinesOutsideUserInput(lines, keyword) ==
    { i \in 1..Len(lines) :
        /\ Includes(lines[i], keyword)
        /\ ~InUserCommand(lines, i)
        /\ \A phrase \in UserPhrases : ~Includes(lines[i], phrase) }

\* C36: a keyword line inside a user-command region is no detection: when a
\* read leads to the execution of a stage, the session shows the stage's
\* keyword on a line outside every user-command region.
C36_UserCommandNeverExecutes ==
    [][(ReadReturnedInStep /\ Len(executedChains') > Len(executedChains))
         => LinesOutsideUserInput(pane', LastOf(executedChains').keyword) # {}]_vars

(***************************************************************************)
(* quick_task: the chain built from custom stage names.  A stage name is   *)
(* one piece of text, a keyword the pieces it is concatenated from.        *)
(***************************************************************************)
\* most custom stage names given with --stages
MaxCustomStages == 3

\* stage names: two that differ only in letter case, one with its own
\* instruction template, one plain
CustomStageNames == {"a", "A", "b", "test"}

\* String.prototype.toUpperCase on the stage names
toUpperCase(name) ==
    CASE name = "a" -> "A"
      [] name = "A" -> "A"
      [] name = "b" -> "B"
      [] name = "test" -> "TEST"

StartedKeyword == <<"STARTED">>

\* stage.toUpperCase() + "_DONE"
DoneKeyword(stage) == <<toUpperCase(stage), "_DONE">>

\* STAGE_INSTRUCTIONS, the entries of the stage names in use
STAGE_INSTRUCTIONS ==
    [nextStage \in {"test"} |->
        <<"Great implementation! Now test '", TaskPlaceholder,
          "' with various inputs and edge cases. Show the test results.">>]

\* the template of a stage without an entry in STAGE_INSTRUCTIONS
PhaseInstruction(stage) ==
    <<"Complete the ", stage, " phase for '", TaskPlaceholder,
      "'. Be thorough and complete.">>

FinalInstruction ==
    <<"<party-popper> Excellent work! You have successfully completed all stages for '",
      TaskPlaceholder, "'. Well done!">>

\* the stages array of the older createTempConfig
CustomStages(customStages) ==
    [i \in 1..Len(customStages) |->
        [keyword |-> IF i = 1 THEN StartedKeyword ELSE DoneKeyword(customStages[i - 1]),
         nextStage |-> customStages[i],
         nextKeyword |-> DoneKeyword(customStages[i])]]

\* buildChains(stages)
buildChains(stages) ==
    [i \in 1..Len(stages) |->
        [keyword |-> stages[i].keyword,
         instruction |->
             (IF stages[i].nextStage \in DOMAIN STAGE_INSTRUCTIONS
              THEN STAGE_INSTRUCTIONS[stages[i].nextStage]
              ELSE PhaseInstruction(stages[i].nextStage))
             \o <<" End by saying ">> \o stages[i].nextKeyword,
         nextKeyword |-> stages[i].nextKeyword]]
    \o << [keyword |-> stages[Len(stages)].nextKeyword,
           instruction |-> FinalInstruction] >>

\* the chains of createTempConfig for custom stages, before the task is filled in
CustomChains(customStages) ==
    [i \in 1..Len(customStages) |->
        [keyword |-> IF i = 1 THEN StartedKeyword ELSE DoneKeyword(customStages[i - 1]),
         instruction |-> PhaseInstruction(customStages[i])
                           \o <<" End by saying ">> \o DoneKeyword(customStages[i]),
         nextKeyword |-> DoneKeyword(customStages[i])]]
    \o << [keyword |-> DoneKeyword(customStages[Len(customStages)]),
           instruction |-> FinalInstruction] >>

QuickTaskTimeout == 1800

QuickTaskOptions ==
    [pollInterval |-> DefaultPollInterval, timeout |-> QuickTaskTimeout,
     retryAttempts |-> DefaultRetryAttempts, retryDelay |-> DefaultRetryDelay]

InitialPromptFor(keyword) ==
    <<"Please execute the following task: '", TaskPlaceholder,
      "'. Start by implementing a solution. When you have completed the initial implementation, end by saying ">>
    \o keyword

\* createTempConfig(task, instanceId, sessionName, preset, customStages) with
\* custom stages: the config it writes; '' is an instanceId not given
createTempConfig(task, instanceId, customStages) ==
    LET built == CustomChains(customStages)
    IN  [instanceId |-> IF instanceId = "" THEN UnsetInstanceId ELSE instanceId,
         taskDescription |-> task,
         chains |-> [i \in 1..Len(built) |->
                        [built[i] EXCEPT !.instruction =
                            replaceTemplatePlaceholders(@, TaskReplacement(task))]],
         initialPrompt |-> replaceTemplatePlaceholders(InitialPromptFor(built[1].keyword),
                                                       TaskReplacement(task)),
         options |-> QuickTaskOptions]

\* the older createTempConfig: the chains come from buildChains and keep their
\* placeholders
createTempConfigFromStages(task, instanceId, customStages) ==
    LET stages == CustomStages(customStages)
    IN  [instanceId |-> IF instanceId = "" THEN UnsetInstanceId ELSE instanceId,
         taskDescription |-> task,
         chains |-> buildChains(stages),
         initialPrompt |-> InitialPromptFor(stages[1].keyword),
         options |-> QuickTaskOptions]

RECURSIVE StageLists(_)
StageLists(n) ==
    IF n = 0 THEN {<<>>}
    ELSE {Append(l, name) : l \in StageLists(n - 1), name \in CustomStageNames}

\* the non-empty lists of at most maxCustomStages stage names
CustomStageLists(maxCustomStages) == UNION { StageLists(n) : n \in 1..maxCustomStages }

QuickTaskInit ==
    /\ Constructed(TwoStageChain, Timeout, RetryAttempts)
    /\ input \in { [function |-> f, task |-> TaskText, instanceId |-> "",
                    customStages |-> l] :
                     f \in {"createTempConfig", "buildChains"},
                     l \in CustomStageLists(MaxCustomStages) }
    /\ output = NoOutput

CreateTempConfigReturns ==
    /\ output = NoOutput
    /\ input.function = "createTempConfig"
    /\ output' = Returned(createTempConfig(input.task, input.instanceId, input.customStages))
    /\ UNCHANGED << config, runState, isActive, startTime, interval, pollCount, events,
                    tasks, now, pane, starts, readFailures, sendCount, dispatches,
                    lastCall, waits, input >>

BuildChainsReturns ==
    /\ output = NoOutput
    /\ input.function = "buildChains"
    /\ output' = Returned(createTempConfigFromStages(input.task, input.instanceId,
                                                     input.customStages))
    /\ UNCHANGED << config, runState, isActive, startTime, interval, pollCount, events,
                    tasks, now, pane, starts, readFailures, sendCount, dispatches,
                    lastCall, waits, input >>

QuickTaskNext ==
    \/ CreateTempConfigReturns
    \/ BuildChainsReturns

SpecQuickTask == QuickTaskInit /\ [][QuickTaskNext]_vars

\* the chain is one linear chain from STARTED: each stage but the last names
\* the keyword of the stage after it, the last names none, and no two stages
\* have the same keyword
LinearChain(chs) ==
    /\ chs[1].keyword = StartedKeyword
    /\ \A i \in 1..(Len(chs) - 1) :
           /\ "nextKeyword" \in DOMAIN chs[i]
           /\ chs[i].nextKeyword = chs[i + 1].keyword
    /\ "nextKeyword" \notin DOMAIN chs[Len(chs)]
    /\ \A i, j \in 1..Len(chs) : i # j => chs[i].keyword # chs[j].keyword

\* C39: for every non-empty list of n custom stage names the chain built has
\* n + 1 stages and is one linear chain with pairwise distinct keywords.
C39_CustomChainLinear ==
    output.returned =>
        /\ Len(output.value.chains) = Len(input.customStages) + 1
        /\ LinearChain(output.value.chains)

(***************************************************************************)
(* Instance ids and session names, as sequences of characters.             *)
(***************************************************************************)
ClaudePrefix == <<"c","l","a","u","d","e","_">>
AutoPrefix == <<"a","u","t","o","_">>
SpecPrefix == <<"s","p","e","c","_">>

\* text.replace(pat, by) with a string pattern: the first occurrence only
ReplaceFirst(text, pat, by) ==
    LET o == IndexOf(text, pat)
    IN  IF o = -1 THEN text
        ELSE SubSeq(text, 1, o) \o by \o SubSeq(text, o + Len(pat) + 1, Len(text))

normalizeInstanceId(instanceId) ==
    IF \/ ~Includes(instanceId, <<"_">>)
       \/ (~StartsWith(instanceId, AutoPrefix) /\ ~StartsWith(instanceId, SpecPrefix))
    THEN instanceId
    ELSE ClaudePrefix \o instanceId

instanceIdToSessionName(instanceId) == normalizeInstanceId(instanceId)

sessionNameToInstanceId(sessionName) ==
    IF StartsWith(sessionName, ClaudePrefix)
    THEN ReplaceFirst(sessionName, ClaudePrefix, <<>>)
    ELSE sessionName

\* the session sendToInstance and readFromInstance address for an instance id
SessionAddressed(instanceId) ==
    IF \/ ~Includes(instanceId, <<"_">>)
       \/ (~StartsWith(instanceId, AutoPrefix) /\ ~StartsWith(instanceId, SpecPrefix))
    THEN instanceId
    ELSE ClaudePrefix \o instanceId

\* ids and names: a stem with and without the known prefixes, once or twice
SessionNames ==
    { prefix \o stem :
        prefix \in { <<>>, ClaudePrefix, AutoPrefix, SpecPrefix, ClaudePrefix \o AutoPrefix,
                     ClaudePrefix \o SpecPrefix, ClaudePrefix \o ClaudePrefix },
        stem \in { <<"d","e","v">>, <<"1">>, <<"m","y","_","1">> } }

SessionInit ==
    /\ Constructed(TwoStageChain, Timeout, RetryAttempts)
    /\ input \in { [function |-> f, text |-> name] :
                     f \in {"instanceIdToSessionName", "sessionNameToInstanceId"},
                     name \in SessionNames }
    /\ output = NoOutput

\* instanceIdToSessionName(x) returns
InstanceIdToSessionNameReturns ==
    /\ input.function = "instanceIdToSessionName"
    /\ output = NoOutput
    /\ output' = Returned(instanceIdToSessionName(input.text))
    /\ UNCHANGED << config, runState, isActive, startTime, interval, pollCount, events,
                    tasks, now, pane, starts, readFailures, sendCount, dispatches,
                    lastCall, waits, input >>

\* sessionNameToInstanceId returns: called on the session name given, or on the
\* session name the id was converted to
SessionNameToInstanceIdReturns ==
    /\ \/ /\ input.function = "sessionNameToInstanceId"
          /\ output = NoOutput
          /\ output' = Returned(sessionNameToInstanceId(input.text))
       \/ /\ input.function = "instanceIdToSessionName"
          /\ output.returned
          /\ "reversed" \notin DOMAIN output
          /\ output' = [returned |-> TRUE, value |-> output.value,
                        reversed |-> sessionNameToInstanceId(output.value)]
    /\ UNCHANGED << config, runState, isActive, startTime, interval, pollCount, events,
                    tasks, now, pane, starts, readFailures, sendCount, dispatches,
                    lastCall, waits, input >>

\* sendToInstance is called with the id derived from the session name
SendToInstanceAddresses ==
    /\ input.function = "sessionNameToInstanceId"
    /\ output.returned
    /\ "session" \notin DOMAIN output
    /\ output' = [returned |-> TRUE, value |-> output.value,
                  session |-> SessionAddressed(output.value)]
    /\ UNCHANGED << config, runState, isActive, startTime, interval, pollCount, events,
                    tasks, now, pane, starts, readFailures, sendCount, dispatches,
                    lastCall, waits, input >>

SessionNext ==
    \/ InstanceIdToSessionNameReturns
    \/ SessionNameToInstanceIdReturns
    \/ SendToInstanceAddresses

SpecSession == SessionInit /\ [][SessionNext]_vars

\* C40: sessionNameToInstanceId reverses instanceIdToSessionName on every
\* instance id, and the session addressed for the id derived from a session
\* name is that session name.
C40_SessionNameRoundTrip ==
    /\ (input.function = "instanceIdToSessionName" /\ "reversed" \in DOMAIN output)
           => output.reversed = input.text
    /\ (input.function = "sessionNameToInstanceId" /\ "session" \in DOMAIN output)
           => output.session = input.text

=============================================================================
